---- MODULE Spec2Model ----
(***************************************************************************)
(* SecureDoc-AI: the redaction engine (app/services/redact.py) and the     *)
(* PII geometry mapping (app/services/pii.py) as state machines.           *)
(*                                                                         *)
(* Python values are modelled as follows.  A dict is a record whose DOMAIN *)
(* is the set of keys present.  A character string is a sequence of        *)
(* one-character strings.  An offset value (the "start"/"end" of an        *)
(* entity) is tagged with its Python type: [int |-> n], [none |-> TRUE]    *)
(* (None) or [str |-> s] (a value that is neither None nor a number).      *)
(***************************************************************************)
EXTENDS Integers, Sequences, FiniteSets, TLC

VARIABLES
    pc,               \* position of the running call
    text,             \* redact_text_entities / _create_char_to_word_map: text
    entities,         \* redact_text_entities: entities
    redacted_text,    \* redact_text_entities: the local redacted_text at exit
    returned,         \* redact_text_entities: the value returned
    raised,           \* redact_text_entities: the except branch ran
    files,            \* the image files on disk, by path
    image_path,       \* redact_image: image_path
    pii_entities,     \* redact_image: pii_entities
    redaction_color,  \* redact_image: redaction_color
    image_result,     \* redact_image: the (path, redacted_areas) returned
    document_data,    \* process_document: document_data
    ocr_results,      \* process_document: ocr_results
    pii_results,      \* process_document: pii_results
    page_num,         \* process_document: the loop index
    redacted_pages,   \* process_document: redacted_pages
    total_redactions, \* process_document: total_redactions
    redacted_texts,   \* process_document: redacted_texts
    doc_result,       \* process_document: the dict returned
    report_result,    \* create_redaction_report: the dict returned
    ocr_words,        \* the OCR words of a page: {"word", "bbox", "conf"}
    char_to_word,     \* _create_char_to_word_map: the dict returned
    detected_entity,  \* _map_entity_to_words: entity
    mapped_entity,    \* _map_entity_to_words: the entity returned
    detected,         \* detect_pii: the entities it returns, page by page
    pii_page_results, \* detect_pii_in_doc: pii_results
    form_fields,      \* _detect_form_fields: the list returned
    tables,           \* _detect_tables: the list returned
    text_blocks,      \* _detect_text_blocks: the list returned
    block,            \* a block of text_blocks whose words are clustered again
    layout_results,   \* analyze_layout: layout_results
    layout_result,    \* LayoutAnalysisService.process_document: the dict returned
    document_cache,   \* ingest.py: document_cache, document id -> results by stage
    request,          \* redact_document: the path and form fields of the request
    pdf_result,       \* redact_document: what create_redacted_pdf returned
    response,         \* redact_document: the response (or the HTTP error)
    info_response,    \* get_document_info: the response (or the HTTP error)
    PDF_LIB_AVAILABLE, \* redact.py: whether fpdf could be imported
    now,              \* datetime.now(), in whole seconds
    uploads           \* the responses of the accepted uploads, in order

textVars == <<text, entities, redacted_text, returned, raised>>
imageVars == <<image_path, pii_entities, redaction_color, image_result>>
docVars == <<document_data, ocr_results, pii_results, page_num, redacted_pages,
             total_redactions, redacted_texts, doc_result, report_result>>

mapVars == <<ocr_words, char_to_word, detected_entity, mapped_entity>>
piiVars == <<detected, pii_page_results>>

layoutVars == <<form_fields, tables, text_blocks, block, layout_results, layout_result>>

routerVars == <<document_cache, request, pdf_result, response, info_response,
                PDF_LIB_AVAILABLE, now, uploads>>

vars == <<pc, textVars, files, imageVars, docVars, mapVars, piiVars, layoutVars,
          routerVars>>

(***************************************************************************)
(* Bounds of the model.                                                    *)
(***************************************************************************)
MaxLen == 3          \* longest text handed to redact_text_entities
MaxEntities == 2     \* longest list of well-typed entities
MaxErrOffset == 2    \* largest offset in a list with malformed entities
MaxErrEntities == 2  \* longest list with malformed entities
MaxImageEntities == 2  \* longest entity list handed to redact_image alone
MaxPages == 2        \* most pages of a document
MaxTextLen == 3      \* longest page text handed to the char-to-word map
MaxWords == 2        \* most OCR words of a page
MaxOcrPages == 2     \* most pages handed to PII detection
MaxDetected == 3     \* most entities detect_pii finds on a page
MaxFormWords == 3    \* most words of a page handed to _detect_form_fields
MaxBlockWords == 3   \* most words of a page handed to _detect_text_blocks
MaxRows == 4         \* most rows of words of a page handed to _detect_tables
MaxLayoutPages == 3  \* most pages of a document handed to analyze_layout
MaxCachedPages == 2  \* most pages of a document in document_cache
MaxSeconds == 1      \* seconds the clock advances while requests arrive
MaxUploads == 2      \* most files accepted over all upload requests

\* The variables of the calls that are not running.
NoFiles == [p \in {} |-> 0]
IdleText ==
    /\ text = <<>>
    /\ entities = <<>>
    /\ redacted_text = <<>>
    /\ returned = <<>>
    /\ raised = FALSE
IdleImage ==
    /\ image_path = [page |-> 0]
    /\ pii_entities = <<>>
    /\ redaction_color = "black"
    /\ image_result = [called |-> FALSE]
IdleMap ==
    /\ ocr_words = <<>>
    /\ char_to_word = <<>>
    /\ detected_entity = [entity |-> "idle"]
    /\ mapped_entity = [entity |-> "idle"]
IdlePii ==
    /\ detected = <<>>
    /\ pii_page_results = <<>>
IdleLayout ==
    /\ form_fields = <<>>
    /\ tables = <<>>
    /\ text_blocks = <<>>
    /\ block = [type |-> "idle"]
    /\ layout_results = <<>>
    /\ layout_result = [status |-> "idle"]
IdleRouter ==
    /\ document_cache = [d \in {} |-> 0]
    /\ request = [document_id |-> "idle"]
    /\ pdf_result = [status |-> "idle"]
    /\ response = [status |-> "idle"]
    /\ info_response = [status |-> "idle"]
    /\ PDF_LIB_AVAILABLE = TRUE
    /\ now = 0
    /\ uploads = <<>>
IdleDoc ==
    /\ document_data = [status |-> "idle"]
    /\ ocr_results = [status |-> "idle"]
    /\ pii_results = [status |-> "idle"]
    /\ page_num = 0
    /\ redacted_pages = <<>>
    /\ total_redactions = 0
    /\ redacted_texts = <<>>
    /\ doc_result = [status |-> "idle"]
    /\ report_result = [status |-> "idle"]

(***************************************************************************)
(* Python values.                                                          *)
(***************************************************************************)
PyInt(n) == [int |-> n]
None == [none |-> TRUE]
PyStr == [str |-> "x"]

IsInt(v) == "int" \in DOMAIN v
IsStr(v) == "str" \in DOMAIN v

\* dict.get(key, default)
Get(d, key, default) == IF key \in DOMAIN d THEN d[key] ELSE default

Min(a, b) == IF a < b THEN a ELSE b
Max(a, b) == IF a > b THEN a ELSE b

\* The index a slice bound i denotes in a string of length n.
SliceIndex(i, n) == IF i < 0 THEN Max(i + n, 0) ELSE Min(i, n)

\* s[:i]
SliceTo(s, i) == SubSeq(s, 1, SliceIndex(i, Len(s)))

\* s[i:]
SliceFrom(s, i) == SubSeq(s, SliceIndex(i, Len(s)) + 1, Len(s))

(***************************************************************************)
(* RedactionService.redact_text_entities                                   *)
(***************************************************************************)
UNKNOWN == <<"U", "N", "K", "N", "O", "W", "N">>

\* f"[REDACTED_{entity_type}]"
redaction_marker(entity_type) ==
    <<"[", "R", "E", "D", "A", "C", "T", "E", "D", "_">> \o entity_type \o <<"]">>

\* key=lambda e: e.get("start", 0)
SortKey(e) == Get(e, "start", PyInt(0))

\* sorted() compares keys with <: None is ordered with nothing, a str only
\* with a str.  A list of fewer than two elements is never compared.
SortRaises(ents) ==
    /\ Len(ents) >= 2
    /\ \/ \E i \in 1..Len(ents) : SortKey(ents[i]) = None
       \/ /\ \E i \in 1..Len(ents) : IsStr(SortKey(ents[i]))
          /\ \E i \in 1..Len(ents) : IsInt(SortKey(ents[i]))

KeyVal(k) == IF IsInt(k) THEN k.int ELSE 0

RECURSIVE InsertDescending(_, _)
InsertDescending(sorted, e) ==
    IF sorted = <<>> THEN <<e>>
    ELSE IF KeyVal(SortKey(Head(sorted))) >= KeyVal(SortKey(e))
         THEN <<Head(sorted)>> \o InsertDescending(Tail(sorted), e)
         ELSE <<e>> \o sorted

RECURSIVE InsertAscending(_, _)
InsertAscending(sorted, e) ==
    IF sorted = <<>> THEN <<e>>
    ELSE IF KeyVal(SortKey(Head(sorted))) <= KeyVal(SortKey(e))
         THEN <<Head(sorted)>> \o InsertAscending(Tail(sorted), e)
         ELSE <<e>> \o sorted

RECURSIVE SortPrefix(_, _, _)
SortPrefix(ents, n, descending) ==
    IF n = 0 THEN <<>>
    ELSE IF descending
         THEN InsertDescending(SortPrefix(ents, n - 1, descending), ents[n])
         ELSE InsertAscending(SortPrefix(ents, n - 1, descending), ents[n])

\* The list in ascending start order: the sort without reverse=True.
sorted_entities_ascending(ents) == SortPrefix(ents, Len(ents), FALSE)

\* sorted(entities, key=..., reverse=True): stable, descending start.
sorted_entities(ents) == SortPrefix(ents, Len(ents), TRUE)

\* One iteration of the loop: [ok |-> FALSE] when the iteration raises.
Splice(current, entity) ==
    LET start == Get(entity, "start", None)
        end == Get(entity, "end", None)
        entity_type == Get(entity, "entity", UNKNOWN)
    IN  IF start # None /\ end # None
        THEN IF IsInt(start) /\ IsInt(end)
             THEN [ok |-> TRUE,
                   text |-> SliceTo(current, start.int)
                            \o redaction_marker(entity_type)
                            \o SliceFrom(current, end.int)]
             ELSE [ok |-> FALSE, text |-> current]
        ELSE [ok |-> TRUE, text |-> current]

\* The loop over sorted_entities from its i-th element on.
RECURSIVE SpliceFrom(_, _, _)
SpliceFrom(sorted, i, current) ==
    IF i > Len(sorted) THEN [ok |-> TRUE, text |-> current]
    ELSE LET r == Splice(current, sorted[i])
         IN  IF r.ok THEN SpliceFrom(sorted, i + 1, r.text) ELSE r

\* The except branch returning the partially spliced local.
ExceptReturnsPartial(original, current) == current

\* except Exception: return text
ExceptReturn(original, current) == original

\* The whole call: the local redacted_text at exit, whether the except
\* branch ran, and the value returned.
RedactTextRun(t, ents) ==
    IF SortRaises(ents)
    THEN [raised |-> TRUE, redacted_text |-> t, returned |-> ExceptReturn(t, t)]
    ELSE LET r == SpliceFrom(sorted_entities(ents), 1, t)
         IN  [raised |-> ~r.ok,
              redacted_text |-> r.text,
              returned |-> IF r.ok THEN r.text ELSE ExceptReturn(t, r.text)]

redact_text_entities(t, ents) == RedactTextRun(t, ents).returned

(***************************************************************************)
(* Inputs of redact_text_entities.                                         *)
(***************************************************************************)
Alphabet == <<"a", "b", "c", "d", "e", "f">>
SSN == <<"S", "S", "N">>
ID == <<"I", "D">>

\* Texts of pairwise distinct characters: the function never reads a
\* character, so distinct characters expose every misplaced splice.
Texts(maxLen) == {SubSeq(Alphabet, 1, n) : n \in 0..maxLen}

SeqsUpTo(S, n) == UNION {[1..k -> S] : k \in 0..n}

\* Entities as the detectors produce them: a type and int offsets.
TypedEntities ==
    {[entity |-> t, start |-> PyInt(s), end |-> PyInt(e)] :
        t \in {SSN, ID}, s \in 0..MaxLen, e \in 0..MaxLen}

WellFormedEntities == {e \in TypedEntities : e.start.int <= e.end.int}

\* Offsets of every Python type, a key possibly absent.
OffsetValues == {PyInt(n) : n \in 0..MaxErrOffset} \cup {None, PyStr}

AnyEntities ==
    {[entity |-> ID, start |-> s, end |-> e] : s \in OffsetValues, e \in OffsetValues}
    \cup {[entity |-> ID, start |-> s] : s \in OffsetValues}
    \cup {[entity |-> ID, end |-> e] : e \in OffsetValues}
    \cup {[entity |-> ID]}

InitText ==
    /\ pc = "redact_text_entities"
    /\ IdleLayout
    /\ IdleRouter
    /\ \/ /\ text \in Texts(MaxLen)
          /\ entities \in SeqsUpTo(WellFormedEntities, MaxEntities)
       \/ /\ text = SubSeq(Alphabet, 1, MaxErrOffset)
          /\ entities \in SeqsUpTo(AnyEntities, MaxErrEntities)
    /\ redacted_text = <<>>
    /\ returned = <<>>
    /\ raised = FALSE
    /\ files = NoFiles
    /\ IdleImage
    /\ IdleDoc
    /\ IdleMap
    /\ IdlePii

RedactTextEntities ==
    /\ pc = "redact_text_entities"
    /\ LET run == RedactTextRun(text, entities)
       IN  /\ redacted_text' = run.redacted_text
           /\ returned' = run.returned
           /\ raised' = run.raised
    /\ pc' = "returned"
    /\ UNCHANGED <<routerVars, layoutVars, text, entities, files, imageVars, docVars, mapVars, piiVars>>

NextText == RedactTextEntities

SpecText == InitText /\ [][NextText]_vars

(***************************************************************************)
(* Text redaction: what a correct redaction is, stated without the         *)
(* algorithm.                                                              *)
(***************************************************************************)
HasIntSpan(e) ==
    /\ {"entity", "start", "end"} \subseteq DOMAIN e
    /\ IsInt(e.start)
    /\ IsInt(e.end)

SpansInRange(t, ents) ==
    \A i \in 1..Len(ents) :
        /\ HasIntSpan(ents[i])
        /\ 0 <= ents[i].start.int
        /\ ents[i].start.int <= ents[i].end.int
        /\ ents[i].end.int <= Len(t)

SpansDisjoint(ents) ==
    \A i, j \in 1..Len(ents) :
        i < j => \/ ents[i].end.int <= ents[j].start.int
                 \/ ents[j].end.int <= ents[i].start.int

SpansNonEmpty(ents) == \A i \in 1..Len(ents) : ents[i].start.int < ents[i].end.int

Permuted(s, p) == [i \in 1..Len(s) |-> s[p[i]]]

Listings(s) == {Permuted(s, p) : p \in Permutations(1..Len(s))}

\* The listings of disjoint spans from left to right.
LeftToRight(ents) ==
    {q \in Listings(ents) :
        \A k \in 1..(Len(q) - 1) : q[k].end.int <= q[k + 1].start.int}

\* The text from offset `from` on, each span of q replaced by its marker.
RECURSIVE Assemble(_, _, _)
Assemble(t, q, from) ==
    IF q = <<>> THEN SubSeq(t, from + 1, Len(t))
    ELSE SubSeq(t, from + 1, Head(q).start.int)
         \o redaction_marker(Head(q).entity)
         \o Assemble(t, Tail(q), Head(q).end.int)

Redactions(t, ents) == {Assemble(t, q, 0) : q \in LeftToRight(ents)}

MustFail(ents) ==
    \/ /\ Len(ents) >= 2
       /\ \E i \in 1..Len(ents) : SortKey(ents[i]) = None
    \/ \E i \in 1..Len(ents) :
          LET start == Get(ents[i], "start", None)
              end == Get(ents[i], "end", None)
          IN  /\ start # None
              /\ end # None
              /\ ~(IsInt(start) /\ IsInt(end))

\* C2: whenever processing the entity list fails internally, the call
\* returns exactly the original text, never a partially spliced one.
C2_FailsClosed ==
    pc = "returned"
        => /\ MustFail(entities) => raised
           /\ raised => returned = text

\* A failure after a splice had already been applied.
C2_Witness ==
    /\ pc = "returned"
    /\ raised
    /\ redacted_text # text
    /\ returned = text

\* An entity lacking start or end: the key absent or its value None.
Lacking(e) ==
    /\ \/ Get(e, "start", None) = None
       \/ Get(e, "end", None) = None
    /\ ~IsStr(Get(e, "start", None))
    /\ ~IsStr(Get(e, "end", None))

\* C3: an entity lacking start or end is skipped without aborting the pass:
\* every other entity of the list is still replaced by its marker, and a
\* list of only such entities returns the text unchanged.
C3_LackingSkipped ==
    LET valid == SelectSeq(entities, HasIntSpan)
    IN  (/\ pc = "returned"
         /\ \A i \in 1..Len(entities) : HasIntSpan(entities[i]) \/ Lacking(entities[i])
         /\ SpansInRange(text, valid)
         /\ SpansDisjoint(valid)
         /\ SpansNonEmpty(valid))
            => returned \in Redactions(text, valid)

(***************************************************************************)
(* RedactionService.redact_image                                           *)
(*                                                                         *)
(* A file is [status, width, height, rects]: rects are the rectangles      *)
(* painted on the image, each [xy |-> <<x1, y1, x2, y2>>, fill |-> colour]. *)
(* status "unreadable" makes Image.open raise, "unsavable" makes img.save  *)
(* raise (a mode JPEG cannot hold); a path outside DOMAIN files is a       *)
(* missing file.                                                           *)
(***************************************************************************)
Padding == 5

\* "bbox" in entity and len(entity["bbox"]) == 4
HasBox(entity) == "bbox" \in DOMAIN entity /\ Len(entity.bbox) = 4

\* x1, y1, x2, y2 of the padded box, clamped to the image
PaddedBox(bbox, img) ==
    <<Max(0, bbox[1] - Padding),
      Max(0, bbox[2] - Padding),
      Min(img.width, bbox[1] + bbox[3] + Padding),
      Min(img.height, bbox[2] + bbox[4] + Padding)>>

\* draw.rectangle([(x1, y1), (x2, y2)], fill=redaction_color)
Rectangle(entity, img, color) == [xy |-> PaddedBox(entity.bbox, img), fill |-> color]

\* The entry recording the entity's own box instead of the padded one.
RedactedAreaUnpadded(entity, img) ==
    [entity_type |-> Get(entity, "entity", UNKNOWN), bbox |-> entity.bbox]

\* The entry appended to redacted_areas.
RedactedArea(entity, img) ==
    LET b == PaddedBox(entity.bbox, img)
    IN  [entity_type |-> Get(entity, "entity", UNKNOWN),
         bbox |-> <<b[1], b[2], b[3] - b[1], b[4] - b[2]>>]

\* The loop over pii_entities from its i-th element on.
RECURSIVE RedactLoop(_, _, _, _, _)
RedactLoop(ents, i, img, color, acc) ==
    IF i > Len(ents) THEN acc
    ELSE IF HasBox(ents[i])
         THEN RedactLoop(ents, i + 1, img, color,
                  [rects |-> Append(acc.rects, Rectangle(ents[i], img, color)),
                   redacted_areas |-> Append(acc.redacted_areas,
                                             RedactedArea(ents[i], img))])
         ELSE RedactLoop(ents, i + 1, img, color, acc)

\* tempfile.NamedTemporaryFile(suffix='.jpg', delete=False): a fresh path.
TempPath(path) == [tmp |-> path]

WithFile(fs, path, file) ==
    [q \in DOMAIN fs \cup {path} |-> IF q = path THEN file ELSE fs[q]]

\* draw.rectangle on a drawing library that refuses a rectangle whose
\* second corner lies before its first (ValueError), as later releases of
\* the library do where earlier ones accept it: some entity of the call
\* has such a padded box.
RectangleRefused(ents, img) ==
    /\ img.status = "strict"
    /\ \E i \in 1..Len(ents) :
          /\ HasBox(ents[i])
          /\ \/ PaddedBox(ents[i].bbox, img)[3] < PaddedBox(ents[i].bbox, img)[1]
             \/ PaddedBox(ents[i].bbox, img)[4] < PaddedBox(ents[i].bbox, img)[2]

\* The whole call: the tuple returned and the files afterwards.
redact_image(path, ents, color, fs) ==
    IF path \notin DOMAIN fs \/ fs[path].status = "unreadable"
    THEN [path |-> path, redacted_areas |-> <<>>, files |-> fs]
    ELSE LET img == fs[path]
             done == RedactLoop(ents, 1, img, color,
                                [rects |-> img.rects, redacted_areas |-> <<>>])
         IN  IF img.status = "unsavable" \/ RectangleRefused(ents, img)
             THEN [path |-> path, redacted_areas |-> <<>>, files |-> fs]
             ELSE [path |-> TempPath(path),
                   redacted_areas |-> done.redacted_areas,
                   files |-> WithFile(fs, TempPath(path),
                                      [status |-> "ok", width |-> img.width,
                                       height |-> img.height, rects |-> done.rects])]

(***************************************************************************)
(* Inputs of redact_image.                                                 *)
(***************************************************************************)
PagePath(n) == [page |-> n]

\* A normalized page image before redaction.
PageImage(status) == [status |-> status, width |-> 20, height |-> 10, rects |-> <<>>]

\* Word boxes (x, y, width, height): at the corner, inside, at the far edge,
\* across the far edge, and wholly beyond the right and the top of the image.
Boxes == {<<0, 0, 4, 4>>, <<8, 3, 6, 2>>, <<14, 6, 6, 4>>,
          <<18, 8, 6, 6>>, <<30, 3, 4, 4>>, <<8, -12, 6, 4>>}

ImageEntities ==
    {[entity |-> SSN, bbox |-> b] : b \in Boxes}
    \cup {[bbox |-> b] : b \in Boxes}
    \cup {[entity |-> ID], [entity |-> ID, bbox |-> <<1, 2, 3>>]}

FileStates == {"ok", "strict", "unreadable", "unsavable", "missing"}

FilesWith(path, state) ==
    IF state = "missing" THEN NoFiles ELSE WithFile(NoFiles, path, PageImage(state))

InitImage ==
    /\ pc = "redact_image"
    /\ IdleLayout
    /\ IdleRouter
    /\ image_path = PagePath(1)
    /\ \E state \in FileStates : files = FilesWith(PagePath(1), state)
    /\ pii_entities \in SeqsUpTo(ImageEntities, MaxImageEntities)
    /\ redaction_color \in {"black", "white"}
    /\ image_result = [called |-> FALSE]
    /\ IdleText
    /\ IdleDoc
    /\ IdleMap
    /\ IdlePii

RedactImage ==
    /\ pc = "redact_image"
    /\ LET r == redact_image(image_path, pii_entities, redaction_color, files)
       IN  /\ image_result' = [called |-> TRUE, path |-> r.path,
                               redacted_areas |-> r.redacted_areas]
           /\ files' = r.files
    /\ pc' = "returned"
    /\ UNCHANGED <<routerVars, layoutVars, textVars, image_path, pii_entities, redaction_color, docVars,
                   mapVars, piiVars>>

NextImage == RedactImage

SpecImage == InitImage /\ [][NextImage]_vars

\* The rectangles on the image at a path (none on a missing file).
RectsAt(fs, path) == IF path \in DOMAIN fs THEN fs[path].rects ELSE <<>>

\* What C4 says of a call: one rectangle per entity with a 4-element bbox,
\* one redacted_areas entry per rectangle, in order, with the drawn box.
OneRectanglePerBox ==
    LET boxed == SelectSeq(pii_entities, HasBox)
        rects == RectsAt(files, image_result.path)
        areas == image_result.redacted_areas
    IN  /\ Len(rects) = Len(boxed)
        /\ Len(areas) = Len(rects)
        /\ \A k \in 1..Len(areas) :
              /\ areas[k].entity_type = Get(boxed[k], "entity", UNKNOWN)
              /\ areas[k].bbox = <<rects[k].xy[1], rects[k].xy[2],
                                   rects[k].xy[3] - rects[k].xy[1],
                                   rects[k].xy[4] - rects[k].xy[2]>>

\* C4 as stated: after every call of redact_image, exactly one filled
\* rectangle is drawn for each entity carrying a 4-element bbox and none for
\* the others, and redacted_areas holds exactly one {entity_type, bbox}
\* entry per rectangle drawn, in the same order, whose bbox
\* [x1, y1, x2-x1, y2-y1] is the rectangle drawn.
C4_AsStated == pc = "returned" => OneRectanglePerBox

ImageSaved ==
    /\ image_path \in DOMAIN files
    /\ files[image_path].status \in {"ok", "strict"}
    /\ ~RectangleRefused(pii_entities, files[image_path])

\* What holds of every call: when the image is opened and its redacted copy
\* saved, rectangles and redacted_areas are as C4 says; when opening or
\* saving fails, redact_image returns the original path with an empty
\* redacted_areas list, and the image at that path carries no rectangle.
C4_OneRectanglePerBoxWhenSaved ==
    pc = "returned" =>
        /\ ImageSaved => OneRectanglePerBox
        /\ ~ImageSaved =>
              /\ image_result.path = image_path
              /\ image_result.redacted_areas = <<>>
              /\ RectsAt(files, image_result.path) = <<>>

\* Two different boxes drawn and recorded in the order of the entities.
C4_Witness ==
    /\ pc = "returned"
    /\ ImageSaved
    /\ Len(pii_entities) = 2
    /\ Len(image_result.redacted_areas) = 2
    /\ image_result.redacted_areas[1].bbox # image_result.redacted_areas[2].bbox
    /\ image_result.redacted_areas[1].entity_type
           # image_result.redacted_areas[2].entity_type

\* A coordinate clamped to the range 0 .. limit.
Clamped(n, limit) == Max(0, Min(limit, n))

\* The box expanded by the padding on each side and clamped to the image.
ExpandedAndClamped(bbox, img) ==
    LET x1 == Clamped(bbox[1] - Padding, img.width)
        y1 == Clamped(bbox[2] - Padding, img.height)
        x2 == Clamped(bbox[1] + bbox[3] + Padding, img.width)
        y2 == Clamped(bbox[2] + bbox[4] + Padding, img.height)
    IN  <<x1, y1, x2 - x1, y2 - y1>>

\* The padded box reaches the image: it is not wholly beyond an edge.
TouchesImage(bbox, img) ==
    /\ bbox[1] - Padding <= img.width
    /\ bbox[2] - Padding <= img.height
    /\ bbox[1] + bbox[3] + Padding >= 0
    /\ bbox[2] + bbox[4] + Padding >= 0

\* The recorded area lies in the image and has no negative extent.
WithinImage(area, img) ==
    /\ 0 <= area[1] /\ area[1] + area[3] <= img.width
    /\ 0 <= area[2] /\ area[2] + area[4] <= img.height
    /\ area[3] >= 0
    /\ area[4] >= 0

\* C26: for every entity bbox (x, y, w, h) with w, h >= 0, boxes partly or
\* wholly outside the image included, the recorded redacted-area box is the
\* bbox expanded by 5 px on each side and clamped to the image, lies within
\* [0, width] x [0, height] and has width >= 0 and height >= 0.
C26_PaddedAndClamped ==
    pc = "returned" /\ image_path \in DOMAIN files
                    /\ files[image_path].status \in {"ok", "strict"} =>
        LET boxed == SelectSeq(pii_entities, HasBox)
            areas == image_result.redacted_areas
            img == files[image_path]
        IN  /\ Len(areas) = Len(boxed)
            /\ \A k \in 1..Len(boxed) :
                  /\ k <= Len(areas)
                  /\ areas[k].bbox = ExpandedAndClamped(boxed[k].bbox, img)
                  /\ WithinImage(areas[k].bbox, img)

\* Every area recorded for a box whose padded box reaches the image is the
\* box expanded and clamped, within the image and of no negative extent.
C26_ClampedWhenTouching ==
    pc = "returned" /\ ImageSaved =>
        LET boxed == SelectSeq(pii_entities, HasBox)
            areas == image_result.redacted_areas
            img == files[image_path]
        IN  /\ Len(areas) = Len(boxed)
            /\ \A k \in 1..Len(boxed) :
                  TouchesImage(boxed[k].bbox, img) =>
                      /\ areas[k].bbox = ExpandedAndClamped(boxed[k].bbox, img)
                      /\ WithinImage(areas[k].bbox, img)

(***************************************************************************)
(* RedactionService.process_document and create_redaction_report           *)
(*                                                                         *)
(* ocr_results["pages"] is tagged with its Python type: [list |-> pages]   *)
(* as the tests pass it, [int |-> n] as OCRService.process_document        *)
(* returns it (its page list is under "results").                          *)
(***************************************************************************)
PyList(s) == [list |-> s]

\* next((p for p in pages if p.get("page_num") == n), None): the matches
PagesNumbered(pages, n) ==
    SelectSeq(pages, LAMBDA p : "page_num" \in DOMAIN p /\ p.page_num = n)

\* The generator of such a lookup calls p.get on every item up to the first
\* match: an item that is None raises AttributeError.
LookupRaises(pages, n) ==
    \E j \in 1..Len(pages) :
        /\ "none" \in DOMAIN pages[j]
        /\ PagesNumbered(SubSeq(pages, 1, j - 1), n) = <<>>

\* The statuses process_document requires before it redacts anything.
InputsValid(doc, ocr, pii) ==
    /\ Get(doc, "status", "") = "success"
    /\ Get(ocr, "status", "") = "success"
    /\ Get(pii, "status", "") = "success"

\* total_redactions += len(pii_entities)
TotalIncrementPerEntity(redacted_areas, ents) == Len(ents)

\* total_redactions += len(redacted_areas)
TotalIncrement(redacted_areas, ents) == Len(redacted_areas)

\* One iteration of the page loop for index n (0-based) and pii_page:
\* the entry appended to redacted_pages, the entries appended to
\* redacted_texts, the increment of total_redactions, the files afterwards.
RedactPageBody(doc, ocr, pii_page, n, fs) ==
    LET failed(message) ==
            [entry |-> [page_num |-> n + 1, status |-> "error", message |-> message],
             texts |-> <<>>, increment |-> 0, files |-> fs]
        doc_pages == PagesNumbered(Get(doc, "processed_pages", <<>>), n + 1)
        ocr_pages == Get(ocr, "pages", PyList(<<>>))
    IN  IF pii_page.status # "success"
        THEN failed(<<"PII detection failed for this page",
                      Get(pii_page, "message", "Unknown error")>>)
        ELSE IF doc_pages = <<>>
        THEN failed(<<"Could not find document page">>)
        ELSE IF "list" \notin DOMAIN ocr_pages
        THEN \* iterating ocr_results["pages"] raises; caught by the page's except
             failed(<<"Redaction error", "object is not iterable">>)
        ELSE IF LookupRaises(ocr_pages.list, n + 1)
        THEN failed(<<"Redaction error", "object has no attribute 'get'">>)
        ELSE
        LET doc_page == Head(doc_pages)
            ents == Get(pii_page, "entities", <<>>)
            ocr_page == PagesNumbered(ocr_pages.list, n + 1)
            redact_text == ocr_page # <<>> /\ "text" \in DOMAIN Head(ocr_page)
                           /\ ents # <<>>
            new_text == redact_text_entities(Head(ocr_page).text, ents)
            page_result == [page_num |-> n + 1, status |-> "success"]
                           @@ (IF redact_text THEN [redacted_text |-> new_text]
                               ELSE <<>>)
            texts == IF redact_text
                     THEN <<[page_num |-> n + 1, text |-> new_text]>> ELSE <<>>
        IN  IF ents = <<>>
            THEN [entry |-> page_result
                            @@ [message |-> "No PII entities to redact",
                                redacted_path |-> doc_page.temp_path,
                                redactions |-> 0],
                  texts |-> texts, increment |-> 0, files |-> fs]
            ELSE LET r == redact_image(doc_page.temp_path, ents, "black", fs)
                 IN  [entry |-> page_result
                                @@ [redacted_path |-> r.path,
                                    redactions |-> Len(r.redacted_areas),
                                    redacted_areas |-> r.redacted_areas],
                      texts |-> texts,
                      increment |-> TotalIncrement(r.redacted_areas, ents),
                      files |-> r.files]

\* The loop leaving at the first error entry (a break for the continue).
NextPageUnlessError(n, entry, pages) ==
    IF entry.status = "error" THEN pages ELSE n + 1

\* continue / the end of the loop body: on to the next page
NextPage(n, entry, pages) == n + 1

\* The report of create_redaction_report.
RedactionReport(redacted_results, pii) ==
    LET pages == Get(redacted_results, "redacted_pages", <<>>)
        succeeded == SelectSeq(pages, LAMBDA page : Get(page, "status", "") = "success")
        page_report(page) ==
            [page_num |-> page.page_num,
             redactions |-> Get(page, "redactions", 0),
             redacted_areas |-> Get(page, "redacted_areas", <<>>)]
            @@ (IF "redacted_text" \in DOMAIN page
                THEN [redacted_text |-> page.redacted_text] ELSE <<>>)
    IN  [summary |-> [total_pages |-> Len(pages),
                      total_redactions |-> Get(redacted_results, "total_redactions", 0),
                      sensitivity |-> Get(pii, "sensitivity", "unknown"),
                      entity_types |-> Get(pii, "entity_types", <<>>),
                      entity_count |-> Get(pii, "entity_count", 0)],
         pages |-> [k \in 1..Len(succeeded) |-> page_report(succeeded[k])]]

(***************************************************************************)
(* Inputs of process_document.                                             *)
(***************************************************************************)
PageText == <<"a", "b", "c">>

\* An entity mapped to a word box, and one left without geometry.
BoxedEntity == [entity |-> SSN, start |-> PyInt(0), end |-> PyInt(1),
                bbox |-> <<8, 3, 6, 2>>]
UnboxedEntity == [entity |-> ID, start |-> PyInt(1), end |-> PyInt(3)]

PageEntityLists ==
    {<<>>, <<BoxedEntity>>, <<UnboxedEntity>>, <<UnboxedEntity, BoxedEntity>>}

\* What PII detection reports for a page.
PiiOutcomes ==
    {[status |-> "error", message |-> "OCR failed for this page"],
     [status |-> "warning", message |-> "No text found in OCR results"]}
    \cup {[status |-> "success", entities |-> l, entity_count |-> Len(l)] :
            l \in PageEntityLists}

\* The source of a page: no entry in processed_pages ("nopage"), or an
\* entry whose image file is in that state.
SourceStates == {"nopage", "ok", "unreadable", "unsavable", "missing"}

DocumentPages(src) ==
    LET present == {i \in DOMAIN src : src[i] # "nopage"}
        RECURSIVE from(_)
        from(i) == IF i > Len(src) THEN <<>>
                   ELSE (IF i \in present
                         THEN <<[page_num |-> i, temp_path |-> PagePath(i)]>>
                         ELSE <<>>) \o from(i + 1)
    IN  from(1)

DocumentFiles(src) ==
    [q \in {PagePath(i) : i \in {j \in DOMAIN src : src[j] \in {"ok", "unreadable", "unsavable"}}}
        |-> PageImage(src[q.page])]

\* The shapes of ocr_results: the page list of the tests, that list with
\* one item None, the page count of OCRService.process_document, no "pages".
OcrShapes(n) ==
    {[status |-> "success",
      pages |-> PyList([i \in 1..n |-> [page_num |-> i, text |-> PageText]])]}
    \cup
    {[status |-> "success",
      pages |-> PyList([i \in 1..n |-> IF i = j THEN None
                                       ELSE [page_num |-> i, text |-> PageText]])] :
        j \in 1..n}
    \cup
    {
     [status |-> "success", pages |-> PyInt(n),
      results |-> [i \in 1..n |-> [page_num |-> i, status |-> "success",
                                   text |-> PageText, words |-> <<>>]]],
     [status |-> "success"]}

\* A one-page document some stage of which failed as a whole.
RejectedInputs ==
    {st \in [{"doc", "ocr", "pii"} -> {"success", "error"}] :
        \E k \in DOMAIN st : st[k] = "error"}

InitDocument ==
    /\ pc = "process_document"
    /\ IdleLayout
    /\ IdleRouter
    /\ \/ \E n \in 0..MaxPages :
            \E pii \in [1..n -> PiiOutcomes], src \in [1..n -> SourceStates] :
                /\ document_data = [status |-> "success", file_type |-> "pdf",
                                    pages |-> Len(DocumentPages(src)),
                                    processed_pages |-> DocumentPages(src)]
                /\ files = DocumentFiles(src)
                /\ ocr_results \in OcrShapes(n)
                /\ pii_results =
                       [status |-> "success", pages |-> n,
                        results |-> [i \in 1..n |-> [page_num |-> i] @@ pii[i]]]
       \/ \E st \in RejectedInputs :
            /\ document_data = [status |-> st["doc"]]
            /\ files = NoFiles
            /\ ocr_results = [status |-> st["ocr"]]
            /\ pii_results = [status |-> st["pii"]]
    /\ page_num = 0
    /\ redacted_pages = <<>>
    /\ total_redactions = 0
    /\ redacted_texts = <<>>
    /\ doc_result = [status |-> "idle"]
    /\ report_result = [status |-> "idle"]
    /\ IdleText
    /\ IdleImage
    /\ IdleMap
    /\ IdlePii

\* process_document up to the page loop: the validation of its inputs.
ValidateInputs ==
    /\ pc = "process_document"
    /\ IF InputsValid(document_data, ocr_results, pii_results)
       THEN /\ pc' = "pages"
            /\ doc_result' = doc_result
       ELSE /\ pc' = "rejected"
            /\ doc_result' =
                   [status |-> "error",
                    message |-> "Cannot redact document due to preprocessing, OCR, or PII detection errors"]
    /\ UNCHANGED <<routerVars, layoutVars, textVars, files, imageVars, mapVars, piiVars,
                   document_data, ocr_results, pii_results,
                   page_num, redacted_pages, total_redactions, redacted_texts,
                   report_result>>

\* One iteration of the page loop.
RedactPage ==
    /\ pc = "pages"
    /\ page_num < Len(Get(pii_results, "results", <<>>))
    /\ LET body == RedactPageBody(document_data, ocr_results,
                                  pii_results.results[page_num + 1], page_num, files)
       IN  /\ redacted_pages' = Append(redacted_pages, body.entry)
           /\ redacted_texts' = redacted_texts \o body.texts
           /\ total_redactions' = total_redactions + body.increment
           /\ files' = body.files
           /\ page_num' = NextPage(page_num, body.entry,
                                   Len(Get(pii_results, "results", <<>>)))
    /\ UNCHANGED <<routerVars, layoutVars, pc, textVars, imageVars, mapVars, piiVars,
                   document_data, ocr_results, pii_results,
                   doc_result, report_result>>

\* The return after the loop.
ReturnRedacted ==
    /\ pc = "pages"
    /\ page_num >= Len(Get(pii_results, "results", <<>>))
    /\ doc_result' = [status |-> "success",
                      pages |-> Len(redacted_pages),
                      total_redactions |-> total_redactions,
                      redacted_pages |-> redacted_pages,
                      redacted_texts |-> redacted_texts]
    /\ pc' = "redacted"
    /\ UNCHANGED <<routerVars, layoutVars, textVars, files, imageVars, mapVars, piiVars,
                   document_data, ocr_results, pii_results,
                   page_num, redacted_pages, total_redactions, redacted_texts,
                   report_result>>

\* create_redaction_report on the result; writing the report may fail.
CreateRedactionReport ==
    /\ pc = "redacted"
    /\ \E written \in BOOLEAN :
          report_result' =
              IF written
              THEN [status |-> "success",
                    report |-> RedactionReport(doc_result, pii_results)]
              ELSE [status |-> "error",
                    message |-> "Error creating redaction report"]
    /\ pc' = "reported"
    /\ UNCHANGED <<routerVars, layoutVars, textVars, files, imageVars, mapVars, piiVars,
                   document_data, ocr_results, pii_results,
                   page_num, redacted_pages, total_redactions, redacted_texts,
                   doc_result>>

NextDocument == ValidateInputs \/ RedactPage \/ ReturnRedacted \/ CreateRedactionReport

SpecDocument == InitDocument /\ [][NextDocument]_vars

(***************************************************************************)
(* Claims about process_document and the report.                           *)
(***************************************************************************)
SumOver(seq, f(_)) ==
    LET sum[i \in 0..Len(seq)] == IF i = 0 THEN 0 ELSE sum[i - 1] + f(seq[i])
    IN  sum[Len(seq)]

AreasOf(entry) == Len(Get(entry, "redacted_areas", <<>>))
RedactionsOf(entry) == Get(entry, "redactions", 0)

\* The rectangles on the images the page entries deliver.
RectanglesOn(entry) ==
    IF "redacted_path" \in DOMAIN entry
    THEN Len(RectsAt(files, entry.redacted_path)) ELSE 0

\* Every rectangle on any image file.
RectanglesDrawn ==
    LET RECURSIVE count(_)
        count(paths) ==
            IF paths = {} THEN 0
            ELSE LET q == CHOOSE q \in paths : TRUE
                 IN  Len(files[q].rects) + count(paths \ {q})
    IN  count(DOMAIN files)

Returned == pc \in {"redacted", "reported"}

\* C5: the total_redactions process_document returns, and the one the
\* report summary carries, equals the sum over the page entries of
\* len(redacted_areas), the sum of the per-page redactions counts, and the
\* number of rectangles drawn, whatever the outcomes of the pages.
C5_RedactionCount ==
    /\ pc = "pages" =>
          total_redactions = SumOver(redacted_pages, AreasOf)
    /\ Returned =>
          /\ doc_result.total_redactions = SumOver(doc_result.redacted_pages, AreasOf)
          /\ doc_result.total_redactions = SumOver(doc_result.redacted_pages, RedactionsOf)
          /\ doc_result.total_redactions = SumOver(doc_result.redacted_pages, RectanglesOn)
          /\ doc_result.total_redactions = RectanglesDrawn
    /\ (pc = "reported" /\ report_result.status = "success") =>
          /\ report_result.report.summary.total_redactions = doc_result.total_redactions
          /\ report_result.report.summary.total_redactions
                 = SumOver(report_result.report.pages, AreasOf)
          /\ report_result.report.summary.total_redactions
                 = SumOver(report_result.report.pages, RedactionsOf)

\* A reported document mixing an error page with a page whose entity has
\* a box, or a page whose entity has none with one whose entity has one.
C5_Witness ==
    /\ pc = "reported"
    /\ report_result.status = "success"
    /\ report_result.report.summary.total_redactions >= 1
    /\ \E k \in 1..Len(doc_result.redacted_pages) :
          LET entry == doc_result.redacted_pages[k]
          IN  \/ entry.status = "error"
              \/ /\ entry.status = "success"
                 /\ pii_results.results[k].entities # <<>>
                 /\ entry.redactions = 0

\* The pages of the PII result that process_document answers with an error
\* entry: PII error status, no document page, an exception while redacting.
PageFails(k) ==
    LET pii_page == pii_results.results[k]
        ocr_pages == Get(ocr_results, "pages", PyList(<<>>))
    IN  \/ pii_page.status # "success"
        \/ PagesNumbered(Get(document_data, "processed_pages", <<>>), k) = <<>>
        \/ "list" \notin DOMAIN ocr_pages
        \/ LookupRaises(ocr_pages.list, k)

\* The image files as they were before the call: the page images.
SourceFiles ==
    LET sources == {q \in DOMAIN files : "page" \in DOMAIN q}
    IN  [q \in sources |-> files[q]]

\* The entry page k gets when it is processed on its own.
EntryAlone(k) ==
    RedactPageBody(document_data, ocr_results, pii_results.results[k], k - 1,
                   SourceFiles).entry

\* C6: redacted_pages holds one entry per page of the PII result, in page
\* order with page_num = index + 1; a page that fails (PII error status,
\* missing document page, exception while redacting) gets an error entry,
\* and every other page gets the entry it gets on its own, a success entry.
C6_PageIndependence ==
    Returned =>
        /\ Len(doc_result.redacted_pages) = Len(pii_results.results)
        /\ doc_result.pages = Len(pii_results.results)
        /\ \A k \in 1..Len(doc_result.redacted_pages) :
              LET entry == doc_result.redacted_pages[k]
              IN  /\ entry.page_num = k
                  /\ PageFails(k) <=> entry.status = "error"
                  /\ ~PageFails(k) => entry.status = "success"
                  /\ entry = EntryAlone(k)

\* A failing page between or before pages that succeed with a redaction.
C6_Witness ==
    /\ pc = "redacted"
    /\ Len(doc_result.redacted_pages) = MaxPages
    /\ doc_result.redacted_pages[1].status = "error"
    /\ doc_result.redacted_pages[MaxPages].status = "success"
    /\ doc_result.redacted_pages[MaxPages].redactions >= 1

\* The pages with entities to redact whose source image cannot be opened.
SourceUnusable(k) ==
    /\ ~PageFails(k)
    /\ pii_results.results[k].entities # <<>>
    /\ \/ PagePath(k) \notin DOMAIN files
       \/ files[PagePath(k)].status = "unreadable"

\* C7: a page with entities to redact whose source image is missing or
\* unreadable gets an entry with status error; the other pages are unaffected.
C7_IOFailureMarksPageError ==
    Returned =>
        \A k \in 1..Len(doc_result.redacted_pages) :
            /\ SourceUnusable(k) => doc_result.redacted_pages[k].status = "error"
            /\ ~SourceUnusable(k) => doc_result.redacted_pages[k] = EntryAlone(k)

(***************************************************************************)
(* PIIDetectionService._create_char_to_word_map and _map_entity_to_words   *)
(*                                                                         *)
(* Offsets and word indices are 0-based as in Python.  The dict            *)
(* char_to_word is a function whose domain is the set of its keys.         *)
(***************************************************************************)
SetMin(S) == CHOOSE m \in S : \A n \in S : m <= n
SetMax(S) == CHOOSE m \in S : \A n \in S : m >= n

\* The offsets p >= from at which sub occurs in t.
Occurrences(t, sub, from) ==
    {p \in from..(Len(t) - Len(sub)) : SubSeq(t, p + 1, p + Len(sub)) = sub}

\* str.find(sub, from): the lowest such offset, or -1
Find(t, sub, from) ==
    IF Occurrences(t, sub, from) = {} THEN -1
    ELSE SetMin(Occurrences(t, sub, from))

\* The cursor left where it was after a word is mapped.
CursorStays(char_pos, word_pos, word_text) == char_pos

\* char_pos = word_pos + len(word_text)
CursorAfter(char_pos, word_pos, word_text) == word_pos + Len(word_text)

\* The loop over the words from index i on, with the cursor at char_pos.
RECURSIVE MapWordsFrom(_, _, _, _, _)
MapWordsFrom(t, wds, i, char_pos, map) ==
    IF i >= Len(wds) THEN map
    ELSE LET word_text == Get(wds[i + 1], "word", <<>>)
             word_pos == Find(t, word_text, char_pos)
             covered == word_pos..(word_pos + Len(word_text) - 1)
         IN  IF word_text = <<>>
             THEN MapWordsFrom(t, wds, i + 1, char_pos, map)
             ELSE IF word_pos # -1
             THEN MapWordsFrom(t, wds, i + 1,
                               CursorAfter(char_pos, word_pos, word_text),
                               [j \in DOMAIN map \cup covered |->
                                   IF j \in covered THEN i ELSE map[j]])
             ELSE MapWordsFrom(t, wds, i + 1, char_pos, map)

create_char_to_word_map(t, wds) == MapWordsFrom(t, wds, 0, 0, <<>>)

\* The left edge taken for the right edge of a word.
WordRightIsLeft(bbox) == bbox[1]

\* x + w
WordRight(bbox) == bbox[1] + bbox[3]

\* y + h
WordBottom(bbox) == bbox[2] + bbox[4]

\* The indices of the words under the offsets [start_char, end_char).
WordIndices(ent, map) ==
    {map[c] : c \in (ent.start.int..(ent.end.int - 1)) \cap DOMAIN map}

\* sorted(word_indices)
RECURSIVE SortedIndices(_)
SortedIndices(S) ==
    IF S = {} THEN <<>> ELSE <<SetMin(S)>> \o SortedIndices(S \ {SetMin(S)})

\* An entity over no word given an empty box all the same.
UnmappedGetsEmptyBox(ent) == [bbox |-> <<0, 0, 0, 0>>, words |-> <<>>] @@ ent

\* if not word_indices: return entity
Unmapped(ent) == ent

map_entity_to_words(ent, map, wds) ==
    LET word_indices == SortedIndices(WordIndices(ent, map))
        usable(idx) == /\ idx < Len(wds)
                       /\ "bbox" \in DOMAIN wds[idx + 1]
                       /\ Len(wds[idx + 1].bbox) = 4
        used == SelectSeq(word_indices, usable)
        boxes == {wds[used[k] + 1].bbox : k \in 1..Len(used)}
        min_x == SetMin({b[1] : b \in boxes})
        min_y == SetMin({b[2] : b \in boxes})
        max_x == SetMax({0} \cup {WordRight(b) : b \in boxes})
        max_y == SetMax({0} \cup {WordBottom(b) : b \in boxes})
    IN  IF word_indices = <<>>
        THEN Unmapped(ent)
        ELSE IF used = <<>>
        THEN ent
        ELSE [bbox |-> <<min_x, min_y, max_x - min_x, max_y - min_y>>,
              words |-> [k \in 1..Len(used) |-> Get(wds[used[k] + 1], "word", <<>>)]]
             @@ ent

(***************************************************************************)
(* Inputs of the mapping: a page text with its OCR words.                  *)
(***************************************************************************)
\* Page texts of letters and spaces.
PageChars == {"a", "b", " "}
PageTexts == UNION {[1..n -> PageChars] : n \in 0..MaxTextLen}

\* The word texts OCR may report, among them one it normally drops.
WordTexts == {<<>>, <<"a">>, <<"b">>, <<"a", "b">>, <<"b", "a">>}

\* The boxes (left, top, width, height) OCR may report.
WordBoxes == {<<0, 0, 4, 4>>, <<8, 3, 6, 2>>, <<2, 6, 3, 4>>}

Word(word_text, bbox) == [word |-> word_text, bbox |-> bbox, conf |-> 90]

\* The i-th word (from 1) of a page where only the texts vary.
BoxOfWord(i) == <<6 * (i - 1), 0, 5, 4>>

\* " ".join of the word texts
RECURSIVE Joined(_)
Joined(wds) ==
    IF wds = <<>> THEN <<>>
    ELSE IF Len(wds) = 1 THEN wds[1].word
    ELSE wds[1].word \o <<" ">> \o Joined(Tail(wds))

InitMap ==
    /\ pc = "_create_char_to_word_map"
    /\ IdleLayout
    /\ IdleRouter
    /\ \/ /\ text \in PageTexts
          /\ \E n \in 0..MaxWords : \E texts \in [1..n -> WordTexts] :
                ocr_words = [i \in 1..n |-> Word(texts[i], BoxOfWord(i))]
       \/ \E n \in 1..MaxWords :
             \E texts \in [1..n -> WordTexts \ {<<>>}], boxes \in [1..n -> WordBoxes] :
                /\ ocr_words = [i \in 1..n |-> Word(texts[i], boxes[i])]
                /\ text = Joined(ocr_words)
    /\ char_to_word = <<>>
    /\ detected_entity = [entity |-> "idle"]
    /\ mapped_entity = [entity |-> "idle"]
    /\ entities = <<>>
    /\ redacted_text = <<>>
    /\ returned = <<>>
    /\ raised = FALSE
    /\ files = NoFiles
    /\ IdleImage
    /\ IdleDoc
    /\ IdlePii

CreateCharToWordMap ==
    /\ pc = "_create_char_to_word_map"
    /\ char_to_word' = create_char_to_word_map(text, ocr_words)
    /\ pc' = "_map_entity_to_words"
    /\ UNCHANGED <<routerVars, layoutVars, textVars, files, imageVars, docVars, piiVars,
                   ocr_words, detected_entity, mapped_entity>>

\* An entity detect_pii found in the text is mapped to the words.
MapEntityToWords ==
    /\ pc = "_map_entity_to_words"
    /\ \E start \in 0..Len(text) : \E end \in (start + 1)..Len(text) :
          /\ detected_entity' = [entity |-> SSN, start |-> PyInt(start),
                                 end |-> PyInt(end)]
          /\ mapped_entity' =
                 map_entity_to_words(detected_entity', char_to_word, ocr_words)
    /\ pc' = "mapped"
    /\ UNCHANGED <<routerVars, layoutVars, textVars, files, imageVars, docVars, piiVars,
                   ocr_words, char_to_word>>

NextMap == CreateCharToWordMap \/ MapEntityToWords

SpecMap == InitMap /\ [][NextMap]_vars

(***************************************************************************)
(* Claims about the char-to-word map and the entity geometry.              *)
(***************************************************************************)
MapBuilt == pc \in {"_map_entity_to_words", "mapped"}

\* The offsets mapped to word i, and the cursor when word i is looked up:
\* the end of the last word mapped before it.
MappedTo(i) == {j \in DOMAIN char_to_word : char_to_word[j] = i}
CursorBefore(i) ==
    LET earlier == {j \in DOMAIN char_to_word : char_to_word[j] < i}
    IN  IF earlier = {} THEN 0 ELSE SetMax(earlier) + 1

\* In a text of words joined by single spaces, the word an offset lies in:
\* the number of spaces before it.
WordContaining(off) == Cardinality({j \in 1..off : text[j] = " "})

\* C9: word i is mapped at its first occurrence at or after the cursor,
\* all of [p, p+len) to i, and the cursor moves to p+len; a word not found
\* from the cursor on maps nothing and leaves the cursor; nothing else is
\* mapped.  For a text that is the words joined by single spaces, every
\* non-space offset maps to the word containing it, every space is unmapped.
C9_CursorAlgorithm ==
    MapBuilt =>
        /\ \A j \in DOMAIN char_to_word :
              /\ j \in 0..(Len(text) - 1)
              /\ char_to_word[j] \in 0..(Len(ocr_words) - 1)
        /\ \A i \in 0..(Len(ocr_words) - 1) :
              LET word_text == ocr_words[i + 1].word
                  found == {p \in CursorBefore(i)..(Len(text) - Len(word_text)) :
                               \A k \in 1..Len(word_text) : text[p + k] = word_text[k]}
              IN  IF word_text = <<>> \/ found = {}
                  THEN MappedTo(i) = {}
                  ELSE MappedTo(i) = SetMin(found)..(SetMin(found) + Len(word_text) - 1)
        /\ text = Joined(ocr_words) =>
              \A off \in 0..(Len(text) - 1) :
                  IF text[off + 1] = " "
                  THEN off \notin DOMAIN char_to_word
                  ELSE /\ off \in DOMAIN char_to_word
                       /\ char_to_word[off] = WordContaining(off)

\* The same word twice, joined by a space: the second is mapped after the
\* first, the space between them is not mapped.
C9_Witness ==
    /\ MapBuilt
    /\ Len(ocr_words) = 2
    /\ ocr_words[1].word = ocr_words[2].word
    /\ text = Joined(ocr_words)
    /\ Len(text) = 3
    /\ DOMAIN char_to_word = {0, 2}
    /\ char_to_word[0] = 0
    /\ char_to_word[2] = 1

\* The words under the offsets of the entity.
Referenced ==
    {char_to_word[c] :
        c \in {d \in DOMAIN char_to_word :
                  detected_entity.start.int <= d /\ d < detected_entity.end.int}}

Covers(box, inner) ==
    /\ box[1] <= inner[1]
    /\ box[2] <= inner[2]
    /\ inner[1] + inner[3] <= box[1] + box[3]
    /\ inner[2] + inner[4] <= box[2] + box[4]

\* C10: when an offset of the entity is mapped, its bbox is the smallest
\* box covering the boxes of the words referenced (it covers each, and each
\* of its sides lies on a side of one of them; it is the box of the word
\* itself when there is one) and its words are their texts in ascending
\* index order.
C10_MinimalCoveringBox ==
    (pc = "mapped" /\ Referenced # {}) =>
        LET boxes == {ocr_words[i + 1].bbox : i \in Referenced}
        IN  /\ DOMAIN mapped_entity = DOMAIN detected_entity \cup {"bbox", "words"}
            /\ \A key \in DOMAIN detected_entity :
                  mapped_entity[key] = detected_entity[key]
            /\ \A inner \in boxes : Covers(mapped_entity.bbox, inner)
            /\ \E inner \in boxes : inner[1] = mapped_entity.bbox[1]
            /\ \E inner \in boxes : inner[2] = mapped_entity.bbox[2]
            /\ \E inner \in boxes :
                  inner[1] + inner[3] = mapped_entity.bbox[1] + mapped_entity.bbox[3]
            /\ \E inner \in boxes :
                  inner[2] + inner[4] = mapped_entity.bbox[2] + mapped_entity.bbox[4]
            /\ \A i \in Referenced :
                  Referenced = {i} => mapped_entity.bbox = ocr_words[i + 1].bbox
            /\ Len(mapped_entity.words) = Cardinality(Referenced)
            /\ \E order \in [1..Cardinality(Referenced) -> Referenced] :
                  /\ \A k \in 1..(Cardinality(Referenced) - 1) : order[k] < order[k + 1]
                  /\ \A k \in 1..Cardinality(Referenced) :
                        mapped_entity.words[k] = ocr_words[order[k] + 1].word

\* An entity over two words with different boxes, covered by neither.
C10_Witness ==
    /\ pc = "mapped"
    /\ Cardinality(Referenced) = 2
    /\ Len(mapped_entity.words) = 2
    /\ mapped_entity.words[1] # mapped_entity.words[2]
    /\ \A i \in Referenced : mapped_entity.bbox # ocr_words[i + 1].bbox

(***************************************************************************)
(* PIIDetectionService.detect_pii_in_doc and process_document              *)
(*                                                                         *)
(* What detect_pii finds in the text of a page is an input: detected[i]    *)
(* is the list it returns for page i.  The "text" of an OCR page is tagged *)
(* with its Python type: [str |-> text] or None.                           *)
(***************************************************************************)
HighSensitivity == 5

PyText(t) == [str |-> t]

\* str.strip() of the text is empty
Blank(t) == \A k \in 1..Len(t) : t[k] = " "

\* The entry detect_pii_in_doc appends for page index n (0-based).
PiiPageResult(page_ocr, n, found) ==
    IF Get(page_ocr, "status", "") # "success"
    THEN [page_num |-> n + 1, status |-> "error",
          message |-> <<"OCR failed for this page",
                        Get(page_ocr, "message", "Unknown error")>>]
    ELSE IF ~IsStr(Get(page_ocr, "text", PyText(<<>>)))
    THEN \* None has no strip(): caught by the page's except
         [page_num |-> n + 1, status |-> "error",
          message |-> <<"PII detection error", "object has no attribute 'strip'">>]
    ELSE IF Blank(Get(page_ocr, "text", PyText(<<>>)).str)
    THEN [page_num |-> n + 1, status |-> "warning",
          message |-> "No text found in OCR results"]
    ELSE LET t == page_ocr.text.str
             wds == Get(page_ocr, "words", <<>>)
             char_to_word_map == create_char_to_word_map(t, wds)
             mapped_entities ==
                 IF wds # <<>>
                 THEN [k \in 1..Len(found) |->
                          map_entity_to_words(found[k], char_to_word_map, wds)]
                 ELSE found
         IN  [page_num |-> n + 1, status |-> "success",
              entities |-> mapped_entities,
              entity_count |-> Len(mapped_entities)]

\* The largest entity_count of a success page.
MostEntitiesOnAPage(pages) ==
    SetMax({0} \cup {Get(pages[k], "entity_count", 0) :
                       k \in {j \in 1..Len(pages) : Get(pages[j], "status", "") = "success"}})

\* sum(page.get("entity_count", 0) for page in pages if status == "success")
TotalEntities(pages) ==
    SumOver(SelectSeq(pages, LAMBDA page : Get(page, "status", "") = "success"),
            LAMBDA page : Get(page, "entity_count", 0))

Sensitivity(total_entities) ==
    IF total_entities = 0 THEN "low"
    ELSE IF total_entities < HighSensitivity THEN "medium"
    ELSE "high"

\* set(entity.get("entity") for the entities of the success pages)
EntityTypes(pages) ==
    UNION {{Get(pages[k].entities[e], "entity", None) :
               e \in 1..Len(Get(pages[k], "entities", <<>>))} :
           k \in {j \in 1..Len(pages) : Get(pages[j], "status", "") = "success"}}

(***************************************************************************)
(* Inputs of PII detection.                                                *)
(***************************************************************************)
ScannedText == <<"a", "b", " ", "b", "a">>
ScannedWords == <<Word(<<"a", "b">>, <<0, 0, 4, 4>>), Word(<<"b", "a">>, <<8, 3, 6, 2>>)>>

\* The k-th entity detect_pii reports in ScannedText.
Detected(k) ==
    [entity |-> IF k % 2 = 1 THEN SSN ELSE ID,
     start |-> PyInt((k - 1) % Len(ScannedText)),
     end |-> PyInt(((k - 1) % Len(ScannedText)) + 1)]

\* The OCR results of a page, with what detect_pii finds in its text.
ScannedPages ==
    {[ocr |-> [status |-> "error", message |-> "OCR error"], found |-> <<>>],
     [ocr |-> [status |-> "success", text |-> PyText(<<" ">>), words |-> <<>>], found |-> <<>>],
     [ocr |-> [status |-> "success", text |-> None, words |-> <<>>], found |-> <<>>]}
    \cup
    {[ocr |-> [status |-> "success", text |-> PyText(ScannedText), words |-> w],
      found |-> [k \in 1..d |-> Detected(k)]] :
        w \in {<<>>, ScannedWords}, d \in 0..MaxDetected}

InitPii ==
    /\ pc = "pii_process_document"
    /\ IdleLayout
    /\ IdleRouter
    /\ \/ \E n \in 0..MaxOcrPages : \E pages \in [1..n -> ScannedPages] :
            /\ ocr_results =
                   [status |-> "success", pages |-> PyInt(n),
                    results |-> [i \in 1..n |-> [page_num |-> i] @@ pages[i].ocr]]
            /\ detected = [i \in 1..n |-> pages[i].found]
       \/ /\ ocr_results = [status |-> "error", message |-> "OCR processing error"]
          /\ detected = <<>>
    /\ pii_page_results = <<>>
    /\ pii_results = [status |-> "idle"]
    /\ page_num = 0
    /\ document_data = [status |-> "idle"]
    /\ redacted_pages = <<>>
    /\ total_redactions = 0
    /\ redacted_texts = <<>>
    /\ doc_result = [status |-> "idle"]
    /\ report_result = [status |-> "idle"]
    /\ files = NoFiles
    /\ IdleText
    /\ IdleImage
    /\ IdleMap

\* process_document refuses OCR results that are not a success.
PiiRejectDocument ==
    /\ pc = "pii_process_document"
    /\ Get(ocr_results, "status", "") # "success"
    /\ pii_results' = [status |-> "error",
                       message |-> "Cannot process document due to OCR errors"]
    /\ pc' = "pii_rejected"
    /\ UNCHANGED <<routerVars, layoutVars, textVars, files, imageVars, mapVars, piiVars, document_data,
                   ocr_results, page_num, redacted_pages, total_redactions,
                   redacted_texts, doc_result, report_result>>

\* detect_pii_in_doc without pages: a single error entry.
DetectPiiNoPages ==
    /\ pc = "pii_process_document"
    /\ Get(ocr_results, "status", "") = "success"
    /\ Get(ocr_results, "results", <<>>) = <<>>
    /\ pii_page_results' = <<[page_num |-> 0, status |-> "error",
                              message |-> "No OCR results provided"]>>
    /\ pc' = "detect_pii_in_doc"
    /\ UNCHANGED <<routerVars, layoutVars, textVars, files, imageVars, mapVars, detected, docVars>>

\* One iteration of the page loop of detect_pii_in_doc.
DetectPiiPage ==
    /\ pc \in {"pii_process_document", "detect_pii_in_doc"}
    /\ Get(ocr_results, "status", "") = "success"
    /\ page_num < Len(Get(ocr_results, "results", <<>>))
    /\ pii_page_results' =
           Append(pii_page_results,
                  PiiPageResult(ocr_results.results[page_num + 1], page_num,
                                detected[page_num + 1]))
    /\ page_num' = page_num + 1
    /\ pc' = "detect_pii_in_doc"
    /\ UNCHANGED <<routerVars, layoutVars, textVars, files, imageVars, mapVars, detected, document_data,
                   ocr_results, pii_results, redacted_pages, total_redactions,
                   redacted_texts, doc_result, report_result>>

\* Back in process_document: the totals and the sensitivity level.
ClassifySensitivity ==
    /\ pc = "detect_pii_in_doc"
    /\ page_num >= Len(Get(ocr_results, "results", <<>>))
    /\ pii_results' = [status |-> "success",
                       pages |-> Len(pii_page_results),
                       results |-> pii_page_results,
                       sensitivity |-> Sensitivity(TotalEntities(pii_page_results)),
                       entity_count |-> TotalEntities(pii_page_results),
                       entity_types |-> EntityTypes(pii_page_results)]
    /\ pc' = "pii_classified"
    /\ UNCHANGED <<routerVars, layoutVars, textVars, files, imageVars, mapVars, piiVars, document_data,
                   ocr_results, page_num, redacted_pages, total_redactions,
                   redacted_texts, doc_result, report_result>>

NextPii == PiiRejectDocument \/ DetectPiiNoPages \/ DetectPiiPage \/ ClassifySensitivity

SpecPii == InitPii /\ [][NextPii]_vars

(***************************************************************************)
(* Claim about the sensitivity level.                                      *)
(***************************************************************************)
\* N: the entities on the success pages of the result, page by page.
EntitiesOnSuccessPages ==
    SumOver(pii_results.results,
            LAMBDA page : IF page.status = "success" THEN Len(page.entities) ELSE 0)

\* C8: with N the number of entities over all success pages of the
\* document, sensitivity is low iff N = 0, medium iff 1 <= N <= 4, high iff
\* N >= 5, and entity_count = N.
C8_SensitivityByDocument ==
    pc = "pii_classified" =>
        /\ pii_results.sensitivity \in {"low", "medium", "high"}
        /\ pii_results.sensitivity = "low" <=> EntitiesOnSuccessPages = 0
        /\ pii_results.sensitivity = "medium" <=>
               (1 <= EntitiesOnSuccessPages /\ EntitiesOnSuccessPages <= 4)
        /\ pii_results.sensitivity = "high" <=> EntitiesOnSuccessPages >= 5
        /\ pii_results.entity_count = EntitiesOnSuccessPages
        /\ EntitiesOnSuccessPages =
               SumOver(pii_results.results,
                       LAMBDA page : IF page.status = "success"
                                     THEN Len(detected[page.page_num]) ELSE 0)

\* Five entities in the document, fewer than five on each of its pages.
C8_Witness ==
    /\ pc = "pii_classified"
    /\ pii_results.sensitivity = "high"
    /\ pii_results.entity_count = 5
    /\ \A k \in 1..Len(pii_results.results) :
          /\ pii_results.results[k].status = "success"
          /\ pii_results.results[k].entity_count < 5

(***************************************************************************)
(* A page from the mapping of a detected entity to its redaction: the      *)
(* entity _map_entity_to_words returns is the page's entity in the PII     *)
(* result RedactionService.process_document is given, with the page's OCR  *)
(* text and its image.                                                     *)
(***************************************************************************)
InitGeometry ==
    /\ pc = "_create_char_to_word_map"
    /\ IdleLayout
    /\ IdleRouter
    /\ \E n \in 1..MaxWords :
          \E texts \in [1..n -> WordTexts \ {<<>>}], boxes \in [1..n -> WordBoxes] :
             /\ ocr_words = [i \in 1..n |-> Word(texts[i], boxes[i])]
             /\ text = Joined(ocr_words)
    /\ char_to_word = <<>>
    /\ detected_entity = [entity |-> "idle"]
    /\ mapped_entity = [entity |-> "idle"]
    /\ entities = <<>>
    /\ redacted_text = <<>>
    /\ returned = <<>>
    /\ raised = FALSE
    /\ files = DocumentFiles(<<"ok">>)
    /\ document_data = [status |-> "success", file_type |-> "image", pages |-> 1,
                        processed_pages |-> DocumentPages(<<"ok">>)]
    /\ ocr_results = [status |-> "success",
                      pages |-> PyList(<<[page_num |-> 1, text |-> text]>>)]
    /\ pii_results = [status |-> "idle"]
    /\ page_num = 0
    /\ redacted_pages = <<>>
    /\ total_redactions = 0
    /\ redacted_texts = <<>>
    /\ doc_result = [status |-> "idle"]
    /\ report_result = [status |-> "idle"]
    /\ IdleImage
    /\ IdlePii

\* The page entry of detect_pii_in_doc with the mapped entity, in the
\* result of PIIDetectionService.process_document.
PageDetected ==
    /\ pc = "mapped"
    /\ pii_results' =
           [status |-> "success", pages |-> 1,
            results |-> <<[page_num |-> 1, status |-> "success",
                           entities |-> <<mapped_entity>>, entity_count |-> 1]>>,
            sensitivity |-> Sensitivity(1), entity_count |-> 1,
            entity_types |-> {mapped_entity.entity}]
    /\ pc' = "process_document"
    /\ UNCHANGED <<routerVars, layoutVars, textVars, files, imageVars, mapVars, piiVars, document_data,
                   ocr_results, page_num, redacted_pages, total_redactions,
                   redacted_texts, doc_result, report_result>>

NextGeometry ==
    \/ CreateCharToWordMap
    \/ MapEntityToWords
    \/ PageDetected
    \/ ValidateInputs
    \/ RedactPage
    \/ ReturnRedacted

SpecGeometry == InitGeometry /\ [][NextGeometry]_vars

\* An entity none of whose offsets is in the char-to-word map.
GeometryMiss == pc \notin {"_create_char_to_word_map", "_map_entity_to_words"}
                /\ Referenced = {}

LineKey(bbox, grid) == ((2 * bbox[2] + bbox[4]) \div (2 * grid)) * grid

\* if 'bbox' in word and len(word['bbox']) == 4
Boxed(wds) == SelectSeq(wds, LAMBDA w : "bbox" \in DOMAIN w /\ Len(w.bbox) = 4)

\* The keys of the defaultdict in the order of their insertion.
RECURSIVE KeysInOrder(_, _)
KeysInOrder(wds, grid) ==
    IF wds = <<>> THEN <<>>
    ELSE LET before == KeysInOrder(SubSeq(wds, 1, Len(wds) - 1), grid)
             key == LineKey(wds[Len(wds)].bbox, grid)
         IN  IF \E k \in 1..Len(before) : before[k] = key
             THEN before ELSE Append(before, key)

\* lines[key]: the words of that key in the order of the page
WordsOfKey(wds, grid, key) ==
    SelectSeq(wds, LAMBDA w : LineKey(w.bbox, grid) = key)

\* list.sort(key=lambda w: w['bbox'][0]): stable, ascending left x
RECURSIVE SortByLeft(_)
SortByLeft(wds) ==
    IF wds = <<>> THEN <<>>
    ELSE LET sorted == SortByLeft(SubSeq(wds, 1, Len(wds) - 1))
             w == wds[Len(wds)]
             keep == Cardinality({k \in 1..Len(sorted) : sorted[k].bbox[1] <= w.bbox[1]})
         IN  SubSeq(sorted, 1, keep) \o <<w>> \o SubSeq(sorted, keep + 1, Len(sorted))

\* " ".join(w['word'] for w in wds)
RECURSIVE JoinWords(_)
JoinWords(wds) ==
    IF wds = <<>> THEN <<>>
    ELSE IF Len(wds) = 1 THEN wds[1].word
    ELSE wds[1].word \o <<" ">> \o JoinWords(Tail(wds))

\* str.lower() on the letters of the word texts of the model
LowerChar(c) == IF c = "I" THEN "i" ELSE IF c = "D" THEN "d" ELSE c
Lower(t) == [k \in 1..Len(t) |-> LowerChar(t[k])]

\* ['name', 'address', 'phone', 'email', 'date', 'id']
FieldIndicators ==
    {<<"n", "a", "m", "e">>, <<"a", "d", "d", "r", "e", "s", "s">>,
     <<"p", "h", "o", "n", "e">>, <<"e", "m", "a", "i", "l">>,
     <<"d", "a", "t", "e">>, <<"i", "d">>}

\* word.endswith(':') or word.lower() in the indicators
IsLabel(t) == (t # <<>> /\ t[Len(t)] = ":") \/ Lower(t) \in FieldIndicators

\* str.rstrip(':')
RECURSIVE RStripColon(_)
RStripColon(t) ==
    IF t # <<>> /\ t[Len(t)] = ":" THEN RStripColon(SubSeq(t, 1, Len(t) - 1)) ELSE t

\* A label that ends its line taken for a field with an empty value.
HasValueOrEndsLine(i, line_words) == TRUE

\* if i < len(line_words) - 1   (i is 0-based)
HasValue(i, line_words) == i < Len(line_words) - 1

\* The field appended for the label at index i (0-based) of a sorted line.
FormField(line_words, i) ==
    LET word == line_words[i + 1]
        rest == SubSeq(line_words, i + 1, Len(line_words))
        last == line_words[Len(line_words)]
        x1 == word.bbox[1]
        y1 == SetMin({rest[k].bbox[2] : k \in 1..Len(rest)})
        x2 == last.bbox[1] + last.bbox[3]
        y2 == SetMax({rest[k].bbox[2] + rest[k].bbox[4] : k \in 1..Len(rest)})
    IN  [field |-> RStripColon(word.word),
         value |-> JoinWords(SubSeq(line_words, i + 2, Len(line_words))),
         bbox |-> <<x1, y1, x2 - x1, y2 - y1>>]

\* The fields of one sorted line, from index i (0-based) on.
RECURSIVE LineFields(_, _)
LineFields(line_words, i) ==
    IF i >= Len(line_words) THEN <<>>
    ELSE (IF IsLabel(line_words[i + 1].word) /\ HasValue(i, line_words)
          THEN <<FormField(line_words, i)>> ELSE <<>>)
         \o LineFields(line_words, i + 1)

detect_form_fields(wds) ==
    LET keys == KeysInOrder(Boxed(wds), 10)
        RECURSIVE fields(_)
        fields(k) ==
            IF k > Len(keys) THEN <<>>
            ELSE LineFields(SortByLeft(WordsOfKey(Boxed(wds), 10, keys[k])), 0)
                 \o fields(k + 1)
    IN  fields(1)

(***************************************************************************)
(* Inputs of _detect_form_fields: words at four places on two lines of the *)
(* 10 px grid, the lower line holding words of two different tops.         *)
(***************************************************************************)
FormTexts == {<<"i", "d">>, <<"I", "D", ":">>, <<"x">>, <<":">>}
FormPlaces == {<<0, 0>>, <<10, 0>>, <<0, 12>>, <<10, 6>>}

\* Words at the left of the upper line that reach beyond the right edge of
\* every other word of the model.
WideWords == {Word(t, <<0, 0, 20, 8>>) : t \in {<<"I", "D", ":">>, <<"x">>}}

FormWords ==
    {Word(t, <<at[1], at[2], 6, 8>>) : t \in FormTexts, at \in FormPlaces}
        \cup WideWords

\* The variables of the other services, idle while a layout detector runs.
OthersIdle ==
    /\ files = NoFiles
    /\ IdleText
    /\ IdleImage
    /\ IdleDoc
    /\ IdlePii
    /\ char_to_word = <<>>
    /\ detected_entity = [entity |-> "idle"]
    /\ mapped_entity = [entity |-> "idle"]

InitForms ==
    /\ pc = "_detect_form_fields"
    /\ \E n \in 0..MaxFormWords : ocr_words \in [1..n -> FormWords]
    /\ IdleLayout
    /\ IdleRouter
    /\ OthersIdle

DetectFormFields ==
    /\ pc = "_detect_form_fields"
    /\ form_fields' = detect_form_fields(ocr_words)
    /\ pc' = "form_fields"
    /\ UNCHANGED <<routerVars, textVars, files, imageVars, docVars, mapVars, piiVars,
                   tables, text_blocks, block, layout_results, layout_result>>

NextForms == DetectFormFields

SpecForms == InitForms /\ [][NextForms]_vars

(***************************************************************************)
(* Claim about the form fields.                                            *)
(***************************************************************************)
\* The line keys of the page in the order of their first word, and the
\* words (by index) of a line from left to right, ties in page order.
FormLineKeys == KeysInOrder(ocr_words, 10)
FormLine(key) ==
    LET members == {i \in 1..Len(ocr_words) : LineKey(ocr_words[i].bbox, 10) = key}
        before(i, j) == \/ ocr_words[i].bbox[1] < ocr_words[j].bbox[1]
                        \/ ocr_words[i].bbox[1] = ocr_words[j].bbox[1] /\ i < j
    IN  CHOOSE line \in [1..Cardinality(members) -> members] :
            \A a, b \in 1..Cardinality(members) : a < b => before(line[a], line[b])

\* The label candidates that do not end their line: <<line, position>>.
LabelsWithValue ==
    {c \in (1..Len(FormLineKeys)) \X (1..Len(ocr_words)) :
        /\ c[2] < Len(FormLine(FormLineKeys[c[1]]))
        /\ IsLabel(ocr_words[FormLine(FormLineKeys[c[1]])[c[2]]].word)}

\* The place of a candidate among them, line by line and left to right.
LabelRank(c) ==
    1 + Cardinality({d \in LabelsWithValue :
                        d[1] < c[1] \/ (d[1] = c[1] /\ d[2] < c[2])})

\* C13: on every line (words sorted by left x) each label candidate that
\* is not the last word of the line emits exactly one field, whose label is
\* the word text without trailing colons and whose value is the following
\* words of the line joined by single spaces in order; a label candidate
\* that is the last or only word of its line emits no field.
C13_OneFieldPerLabel ==
    pc = "form_fields" =>
        /\ Len(form_fields) = Cardinality(LabelsWithValue)
        /\ \A c \in LabelsWithValue :
              LET line == FormLine(FormLineKeys[c[1]])
                  label == ocr_words[line[c[2]]].word
                  emitted == form_fields[LabelRank(c)]
              IN  /\ \E colons \in 0..Len(label) :
                        /\ emitted.field = SubSeq(label, 1, Len(label) - colons)
                        /\ \A k \in (Len(label) - colons + 1)..Len(label) : label[k] = ":"
                        /\ emitted.field = <<>> \/ emitted.field[Len(emitted.field)] # ":"
                  /\ emitted.value =
                         JoinWords([k \in 1..(Len(line) - c[2]) |-> ocr_words[line[c[2] + k]]])

\* The line ["ID:", "x", "x"]: one field, ID with the value "x x".
C13_Witness ==
    /\ pc = "form_fields"
    /\ Len(ocr_words) = 3
    /\ Len(form_fields) = 1
    /\ form_fields[1].field = <<"I", "D">>
    /\ form_fields[1].value = <<"x", " ", "x">>

\* C22: the bbox of every emitted field is the minimal axis-aligned box
\* covering the boxes of the label word and of every value word (all words
\* from the label to the end of the line), for any word widths, also when
\* a word reaches further right than the last word of the line.
C22_FieldBoxCovers ==
    pc = "form_fields" =>
        \A c \in LabelsWithValue :
            LET line == FormLine(FormLineKeys[c[1]])
                covered == {ocr_words[line[k]].bbox : k \in c[2]..Len(line)}
                left == SetMin({b[1] : b \in covered})
                top == SetMin({b[2] : b \in covered})
                right == SetMax({b[1] + b[3] : b \in covered})
                bottom == SetMax({b[2] + b[4] : b \in covered})
            IN  form_fields[LabelRank(c)].bbox
                    = <<left, top, right - left, bottom - top>>

\* The box of every emitted field when no word of the line reaches beyond
\* the right edge of its last word.
C22_CoversWhenLastWordIsRightmost ==
    pc = "form_fields" =>
        \A c \in LabelsWithValue :
            LET line == FormLine(FormLineKeys[c[1]])
                covered == {ocr_words[line[k]].bbox : k \in c[2]..Len(line)}
                last == ocr_words[line[Len(line)]].bbox
                left == SetMin({b[1] : b \in covered})
                top == SetMin({b[2] : b \in covered})
                right == SetMax({b[1] + b[3] : b \in covered})
                bottom == SetMax({b[2] + b[4] : b \in covered})
            IN  right = last[1] + last[3] =>
                    form_fields[LabelRank(c)].bbox
                        = <<left, top, right - left, bottom - top>>

(***************************************************************************)
(* _detect_text_blocks                                                     *)
(***************************************************************************)
\* sorted(lines.keys())
SortedKeys(wds, grid) ==
    LET keys == {LineKey(wds[k].bbox, grid) : k \in 1..Len(wds)}
    IN  SortedIndices(keys)

\* sum(w['bbox'][3] for w in wds)
RECURSIVE SumHeights(_)
SumHeights(wds) ==
    IF wds = <<>> THEN 0 ELSE wds[1].bbox[4] + SumHeights(Tail(wds))

\* The quadruples <<sum, count, sum_all, count_all>> of the heights of the
\* model for which the double nearest to (sum_all / count_all) * 1.2 lies
\* below sum / count although the two rationals are equal:
\* (35 / 3) * 1.2 evaluates to 13.999999999999998.
RoundedBelow == {<<14, 1, 35, 3>>}

\* avg_height > avg_height_all * 1.2, both averages and the product in
\* binary floating point
ExceedsByFifth(sum, count, sum_all, count_all) ==
    \/ 5 * sum * count_all > 6 * sum_all * count
    \/ <<sum, count, sum_all, count_all>> \in RoundedBelow

\* " ".join([" ".join(w['word'] for w in line) for line in lines])
RECURSIVE JoinLines(_)
JoinLines(lines) ==
    IF lines = <<>> THEN <<>>
    ELSE IF Len(lines) = 1 THEN JoinWords(lines[1])
    ELSE JoinWords(lines[1]) \o <<" ">> \o JoinLines(Tail(lines))

\* word_count taken over the page instead of the block.
TextBlockCountingPage(current_block, current_block_lines, words) ==
    LET min_x == SetMin({current_block[k].bbox[1] : k \in 1..Len(current_block)})
        min_y == SetMin({current_block[k].bbox[2] : k \in 1..Len(current_block)})
        max_x == SetMax({current_block[k].bbox[1] + current_block[k].bbox[3] :
                            k \in 1..Len(current_block)})
        max_y == SetMax({current_block[k].bbox[2] + current_block[k].bbox[4] :
                            k \in 1..Len(current_block)})
        is_heading ==
            /\ Len(current_block_lines) = 1
            /\ ExceedsByFifth(SumHeights(current_block), Len(current_block),
                              SumHeights(words), Len(words))
    IN  [text |-> JoinLines(current_block_lines),
         bbox |-> <<min_x, min_y, max_x - min_x, max_y - min_y>>,
         type |-> IF is_heading THEN "heading" ELSE "paragraph",
         line_count |-> Len(current_block_lines),
         word_count |-> Len(words)]

\* The dict appended to blocks for a block of the page.
TextBlock(current_block, current_block_lines, words) ==
    LET min_x == SetMin({current_block[k].bbox[1] : k \in 1..Len(current_block)})
        min_y == SetMin({current_block[k].bbox[2] : k \in 1..Len(current_block)})
        max_x == SetMax({current_block[k].bbox[1] + current_block[k].bbox[3] :
                            k \in 1..Len(current_block)})
        max_y == SetMax({current_block[k].bbox[2] + current_block[k].bbox[4] :
                            k \in 1..Len(current_block)})
        is_heading ==
            /\ Len(current_block_lines) = 1
            /\ ExceedsByFifth(SumHeights(current_block), Len(current_block),
                              SumHeights(words), Len(words))
    IN  [text |-> JoinLines(current_block_lines),
         bbox |-> <<min_x, min_y, max_x - min_x, max_y - min_y>>,
         type |-> IF is_heading THEN "heading" ELSE "paragraph",
         line_count |-> Len(current_block_lines),
         word_count |-> Len(current_block)]

\* The loop over sorted_line_keys from index i (0-based) on, and the block
\* saved after it: the pairs <<current_block, current_block_lines>> at the
\* moments a block is appended.  A block started in the else branch is the
\* very list object that is the first element of current_block_lines
\* (shared), so extending the block extends that first line as well.
RECURSIVE BlockLoop(_, _, _, _, _, _)
BlockLoop(wds, keys, i, current_block, current_block_lines, shared) ==
    IF i >= Len(keys)
    THEN IF current_block # <<>>
         THEN <<[words |-> current_block, lines |-> current_block_lines]>>
         ELSE <<>>
    ELSE LET line_words == SortByLeft(WordsOfKey(wds, 5, keys[i + 1]))
         IN  IF current_block = <<>> \/ keys[i + 1] - keys[i] < 20
             THEN LET extended == current_block \o line_words
                  IN  BlockLoop(wds, keys, i + 1, extended,
                                IF shared
                                THEN <<extended>> \o Tail(current_block_lines)
                                                  \o <<line_words>>
                                ELSE Append(current_block_lines, line_words),
                                shared)
             ELSE <<[words |-> current_block, lines |-> current_block_lines]>>
                  \o BlockLoop(wds, keys, i + 1, line_words, <<line_words>>, TRUE)

\* The blocks of the page as lists of words and of lines.
TextClusters(words) ==
    IF words = <<>> THEN <<>>
    ELSE BlockLoop(Boxed(words), SortedKeys(Boxed(words), 5), 0, <<>>, <<>>, FALSE)

\* sum(w['bbox'][3] for w in words) for a block of one line reads the bbox
\* of every word of the page, also of the words the grouping left out: a
\* word without the key raises KeyError, a shorter bbox IndexError.
TextBlocksRaise(words) ==
    /\ \E k \in 1..Len(TextClusters(words)) :
           Len(TextClusters(words)[k].lines) = 1
    /\ Len(Boxed(words)) < Len(words)

detect_text_blocks(words) ==
    LET clusters == TextClusters(words)
    IN  [k \in 1..Len(clusters) |->
            TextBlock(clusters[k].words, clusters[k].lines, words)]

(***************************************************************************)
(* Inputs of _detect_text_blocks: a tall word at the top of the page,      *)
(* lines 10 px apart below it and lines 25 px or more below it, with the   *)
(* word heights that put a single-line block below, at and above 1.2 times *)
(* the mean height of the page.                                            *)
(***************************************************************************)
\* A word that carries no bbox.
Unplaced == [word |-> <<"n">>, conf |-> 90]

BlockWords ==
    {Word(<<"T">>, <<0, 0, 10, 14>>),  Word(<<"U">>, <<0, 12, 10, 14>>),
     Word(<<"a">>, <<0, 40, 10, 10>>), Word(<<"b">>, <<20, 40, 10, 11>>),
     Word(<<"c">>, <<0, 52, 10, 10>>), Word(<<"a">>, <<0, 40, 10, 4>>),
     Word(<<"T">>, <<0, 0, 10, 12>>),  Word(<<"a">>, <<0, 40, 10, 8>>),
     Word(<<"T">>, <<0, 0, 10, 121>>), Word(<<"a">>, <<0, 200, 10, 79>>),
     Unplaced}

InitBlocks ==
    /\ pc = "_detect_text_blocks"
    /\ \E n \in 0..MaxBlockWords : ocr_words \in [1..n -> BlockWords]
    /\ IdleLayout
    /\ IdleRouter
    /\ OthersIdle

DetectTextBlocks ==
    /\ pc = "_detect_text_blocks"
    /\ IF TextBlocksRaise(ocr_words)
       THEN /\ pc' = "text_blocks_raised"
            /\ UNCHANGED text_blocks
       ELSE /\ pc' = "text_blocks"
            /\ text_blocks' = detect_text_blocks(ocr_words)
    /\ UNCHANGED <<routerVars, textVars, files, imageVars, docVars, mapVars, piiVars,
                   form_fields, tables, block, layout_results, layout_result>>

\* _detect_text_blocks called again on exactly the words of one block of
\* the page, handed over in any order.
ClusterBlockAgain ==
    /\ pc = "text_blocks"
    /\ \E k \in 1..Len(text_blocks) :
          LET members == TextClusters(ocr_words)[k].words
          IN  \E order \in [1..Len(members) -> 1..Len(members)] :
                 /\ \A a, b \in 1..Len(members) : a # b => order[a] # order[b]
                 /\ block' = text_blocks[k]
                 /\ ocr_words' = [a \in 1..Len(members) |-> members[order[a]]]
                 /\ text_blocks' = detect_text_blocks(ocr_words')
    /\ pc' = "clustered_again"
    /\ UNCHANGED <<routerVars, textVars, files, imageVars, docVars, char_to_word,
                   detected_entity, mapped_entity, piiVars,
                   form_fields, tables, layout_results, layout_result>>

NextBlocks == DetectTextBlocks \/ ClusterBlockAgain

SpecBlocks == InitBlocks /\ [][NextBlocks]_vars

(***************************************************************************)
(* Claims about the text blocks.                                           *)
(***************************************************************************)
\* C15: a block is typed heading iff it has exactly one line and the mean
\* height of its words is strictly greater than 1.2 times the mean height
\* of all words of the page, so that a single-line block at exactly 1.2
\* times the page mean is a paragraph.
C15_HeadingIffAboveFifth ==
    pc = "text_blocks" =>
        \A k \in 1..Len(text_blocks) :
            LET members == TextClusters(ocr_words)[k].words
            IN  text_blocks[k].type = "heading" <=>
                    /\ text_blocks[k].line_count = 1
                    /\ 5 * SumHeights(members) * Len(ocr_words)
                           > 6 * SumHeights(ocr_words) * Len(members)

\* C16: clustering exactly the words of a block B of a page again returns
\* exactly one block, with the bbox, line_count and word_count of B.
C16_ClusteringIdempotent ==
    pc = "clustered_again" =>
        /\ Len(text_blocks) = 1
        /\ text_blocks[1].bbox = block.bbox
        /\ text_blocks[1].line_count = block.line_count
        /\ text_blocks[1].word_count = block.word_count

\* A block of two lines below the top of the page clustered again, its
\* words handed over from the lower line up.
C16_Witness ==
    /\ pc = "clustered_again"
    /\ block.line_count = 2
    /\ block.word_count = 3
    /\ block.bbox[2] = 40
    /\ ocr_words[1].bbox[2] > ocr_words[3].bbox[2]
    /\ Len(text_blocks) = 1

(***************************************************************************)
(* _detect_tables                                                          *)
(***************************************************************************)
Abs(n) == IF n < 0 THEN 0 - n ELSE n

\* potential_rows[row_keys[k]] for k = 0 .. len(row_keys) - 1, each row
\* sorted by left x as it is wherever its order is read.
PotentialRows(words) ==
    LET row_keys == SortedKeys(Boxed(words), 5)
    IN  [k \in 1..Len(row_keys) |->
            SortByLeft(WordsOfKey(Boxed(words), 5, row_keys[k]))]

\* The three rows from index i (0-based) have similar numbers of words.
SimilarCounts(rows, i) ==
    /\ Abs(Len(rows[i + 1]) - Len(rows[i + 2])) <= 1
    /\ Abs(Len(rows[i + 2]) - Len(rows[i + 3])) <= 1
    /\ Len(rows[i + 1]) >= 2

\* A column taken for misaligned once its left edges are over 5 px apart.
MisalignedBeyondFive(x1, x2, x3) ==
    SetMax({x1, x2, x3}) - SetMin({x1, x2, x3}) > 5

\* if max(x1, x2, x3) - min(x1, x2, x3) > 50
Misaligned(x1, x2, x3) ==
    SetMax({x1, x2, x3}) - SetMin({x1, x2, x3}) > 50

\* aligned after the loop over the columns the three rows share
Aligned(rows, i) ==
    \A j \in 1..SetMin({Len(rows[i + 1]), Len(rows[i + 2]), Len(rows[i + 3])}) :
        ~Misaligned(rows[i + 1][j].bbox[1], rows[i + 2][j].bbox[1],
                    rows[i + 3][j].bbox[1])

\* top_row_idx after the loop over j = i-1 .. 0 (all indices 0-based)
RECURSIVE TopRowIdx(_, _, _, _)
TopRowIdx(rows, i, j, top_row_idx) ==
    IF j < 0 THEN top_row_idx
    ELSE IF Abs(Len(rows[j + 1]) - Len(rows[i + 1])) <= 1
         THEN TopRowIdx(rows, i, j - 1, j)
         ELSE top_row_idx

\* bottom_row_idx after the loop over j = i+3 .. len(row_keys) - 1
RECURSIVE BottomRowIdx(_, _, _, _)
BottomRowIdx(rows, i, j, bottom_row_idx) ==
    IF j >= Len(rows) THEN bottom_row_idx
    ELSE IF Abs(Len(rows[j + 1]) - Len(rows[i + 3])) <= 1
         THEN BottomRowIdx(rows, i, j + 1, j)
         ELSE bottom_row_idx

\* cells of the rows in order: row and col count from 0
RECURSIVE TableCells(_, _)
TableCells(all_table_rows, row_idx) ==
    IF row_idx >= Len(all_table_rows) THEN <<>>
    ELSE LET row == all_table_rows[row_idx + 1]
         IN  [col \in 1..Len(row) |->
                 [row |-> row_idx, col |-> col - 1,
                  text |-> row[col].word, bbox |-> row[col].bbox]]
             \o TableCells(all_table_rows, row_idx + 1)

\* cols read off the first row of the table alone.
TableAtColsOfFirstRow(rows, i) ==
    LET top_row_idx == TopRowIdx(rows, i, i - 1, i)
        bottom_row_idx == BottomRowIdx(rows, i, i + 3, i + 2)
        all_table_rows == SubSeq(rows, top_row_idx + 1, bottom_row_idx + 1)
        cells == TableCells(all_table_rows, 0)
        min_x == SetMin({cells[k].bbox[1] : k \in 1..Len(cells)})
        min_y == SetMin({cells[k].bbox[2] : k \in 1..Len(cells)})
        max_x == SetMax({cells[k].bbox[1] + cells[k].bbox[3] : k \in 1..Len(cells)})
        max_y == SetMax({cells[k].bbox[2] + cells[k].bbox[4] : k \in 1..Len(cells)})
    IN  [bbox |-> <<min_x, min_y, max_x - min_x, max_y - min_y>>,
         rows |-> Len(all_table_rows),
         cols |-> Len(all_table_rows[1]),
         cells |-> cells]

\* The table appended for the seed at index i (0-based): its bounds are
\* those of the three seed rows widened by every row from top_row_idx to
\* bottom_row_idx, the seed rows among them.
TableAt(rows, i) ==
    LET top_row_idx == TopRowIdx(rows, i, i - 1, i)
        bottom_row_idx == BottomRowIdx(rows, i, i + 3, i + 2)
        all_table_rows == SubSeq(rows, top_row_idx + 1, bottom_row_idx + 1)
        cells == TableCells(all_table_rows, 0)
        min_x == SetMin({cells[k].bbox[1] : k \in 1..Len(cells)})
        min_y == SetMin({cells[k].bbox[2] : k \in 1..Len(cells)})
        max_x == SetMax({cells[k].bbox[1] + cells[k].bbox[3] : k \in 1..Len(cells)})
        max_y == SetMax({cells[k].bbox[2] + cells[k].bbox[4] : k \in 1..Len(cells)})
    IN  [bbox |-> <<min_x, min_y, max_x - min_x, max_y - min_y>>,
         rows |-> Len(all_table_rows),
         cols |-> SetMax({Len(all_table_rows[r]) : r \in 1..Len(all_table_rows)}),
         cells |-> cells]

\* for i in range(len(row_keys) - 2): the assignment i = bottom_row_idx at
\* the end of the body is overwritten by the next value of the range.
RECURSIVE TablesFrom(_, _)
TablesFrom(rows, i) ==
    IF i >= Len(rows) - 2 THEN <<>>
    ELSE (IF SimilarCounts(rows, i) /\ Aligned(rows, i)
          THEN <<TableAt(rows, i)>> ELSE <<>>)
         \o TablesFrom(rows, i + 1)

detect_tables(words) == TablesFrom(PotentialRows(words), 0)

(***************************************************************************)
(* Inputs of _detect_tables: pages of rows 20 px apart, each row one of a  *)
(* few shapes (the left edges of its words in the order of the page).      *)
(***************************************************************************)
RowShapes ==
    {<<0, 100, 200>>, <<10, 110, 200>>, <<100, 0, 200>>, <<60, 100, 200>>,
     <<0, 100, 200, 300>>, <<0, 100>>, <<0>>}

\* The words of a row of the shape at the given top; the word texts are
\* their place in the row as listed.
ColumnTexts == <<"a", "b", "c", "d">>
RowWords(shape, top) ==
    [c \in 1..Len(shape) |-> Word(<<ColumnTexts[c]>>, <<shape[c], top, 10, 8>>)]

RECURSIVE PageOfRows(_, _)
PageOfRows(shapes, r) ==
    IF r > Len(shapes) THEN <<>>
    ELSE RowWords(shapes[r], 20 * (r - 1)) \o PageOfRows(shapes, r + 1)

InitTables ==
    /\ pc = "_detect_tables"
    /\ \E n \in 0..MaxRows : \E shapes \in [1..n -> RowShapes] :
          ocr_words = PageOfRows(shapes, 1)
    /\ IdleLayout
    /\ IdleRouter
    /\ OthersIdle

DetectTables ==
    /\ pc = "_detect_tables"
    /\ tables' = detect_tables(ocr_words)
    /\ pc' = "tables"
    /\ UNCHANGED <<routerVars, textVars, files, imageVars, docVars, mapVars, piiVars,
                   form_fields, text_blocks, block, layout_results, layout_result>>

NextTables == DetectTables

SpecTables == InitTables /\ [][NextTables]_vars

(***************************************************************************)
(* Claim about the tables.                                                 *)
(***************************************************************************)
\* The row keys of the page and the left edges of a row in ascending order.
RowKeysOfPage == {LineKey(ocr_words[k].bbox, 5) : k \in 1..Len(ocr_words)}
RowLefts(key) ==
    LET row == SortByLeft(WordsOfKey(ocr_words, 5, key))
    IN  [c \in 1..Len(row) |-> row[c].bbox[1]]

\* The words of the page are exactly three rows of 3 words each, the left
\* edges of each column at most 10 px apart across the rows.
ThreeByThree ==
    /\ Cardinality(RowKeysOfPage) = 3
    /\ \A key \in RowKeysOfPage : Len(RowLefts(key)) = 3
    /\ \A c \in 1..3 : \A key, other \in RowKeysOfPage :
          RowLefts(key)[c] - RowLefts(other)[c] <= 10

\* C14: for a page whose words are exactly three rows of 3 words each, the
\* left x of each column differing by at most 10 px across the rows,
\* exactly one table is returned, with 3 rows, 3 columns and 9 cells.
C14_TableSeed ==
    pc = "tables" /\ ThreeByThree =>
        /\ Len(tables) = 1
        /\ tables[1].rows = 3
        /\ tables[1].cols = 3
        /\ Len(tables[1].cells) = 9

\* Three rows of three words, one of them 10 px to the right in two
\* columns, another listed out of order.
C14_Witness ==
    /\ pc = "tables"
    /\ ThreeByThree
    /\ \E k \in 1..Len(ocr_words) : ocr_words[k].bbox[1] = 10
    /\ ocr_words[1].bbox[1] = 100
    /\ Len(tables) = 1
    /\ Len(tables[1].cells) = 9

\* The row keys of the page in ascending order and the number of words of
\* the k-th of them.
PageRowKeys == SortedIndices(RowKeysOfPage)
RowCount(k) == Len(RowLefts(PageRowKeys[k]))

\* The row keys of the cells of a table: its participant rows.
ParticipantKeys(table) ==
    {LineKey(table.cells[c].bbox, 5) : c \in 1..Len(table.cells)}

\* The page is N >= 3 rows of one and the same number (2 or more) of words,
\* the left edges of every column at most 50 px apart over all rows.
AlignedEqualRows ==
    /\ Len(PageRowKeys) >= 3
    /\ RowCount(1) >= 2
    /\ \A k \in 1..Len(PageRowKeys) : RowCount(k) = RowCount(1)
    /\ \A c \in 1..RowCount(1) : \A k, l \in 1..Len(PageRowKeys) :
          RowLefts(PageRowKeys[k])[c] - RowLefts(PageRowKeys[l])[c] <= 50

\* C23: after a table is emitted from a seed the scan resumes below the
\* bottom row of that table, so that a page of N >= 3 consecutive
\* column-aligned rows with equal word counts yields exactly one table,
\* covering the N rows.
C23_OneTablePerRun ==
    pc = "tables" /\ AlignedEqualRows =>
        /\ Len(tables) = 1
        /\ tables[1].rows = Len(PageRowKeys)

\* Every table emitted for such a page covers all of its rows, however many
\* tables there are.
C23_EveryTableCoversRun ==
    pc = "tables" /\ AlignedEqualRows =>
        /\ Len(tables) >= 1
        /\ \A t \in 1..Len(tables) : tables[t].rows = Len(PageRowKeys)

\* The rows k, k+1, k+2 of the page form a seed as claimed.
ClaimedSeed(k) ==
    /\ \A a, b \in k..(k + 2) : Abs(RowCount(a) - RowCount(b)) <= 1
    /\ \A a \in k..(k + 2) : RowCount(a) >= 2
    /\ \A c \in 1..SetMin({RowCount(a) : a \in k..(k + 2)}) :
          \A a, b \in k..(k + 2) :
              RowLefts(PageRowKeys[a])[c] - RowLefts(PageRowKeys[b])[c] <= 50

\* C24: every emitted table comes from a seed of three consecutive row
\* keys whose word counts differ pairwise by at most 1 (first against
\* third too), whose smallest row has at least 2 words and whose left x
\* values differ by at most 50 px in every column the three rows share.
C24_SeedCondition ==
    pc = "tables" =>
        \A t \in 1..Len(tables) :
            \E k \in 1..(Len(PageRowKeys) - 2) :
                /\ ClaimedSeed(k)
                /\ {PageRowKeys[k], PageRowKeys[k + 1], PageRowKeys[k + 2]}
                       \subseteq ParticipantKeys(tables[t])

\* The seed as the code tests it: neighbouring counts at most 1 apart, the
\* first row of 2 words or more, the shared columns aligned.
TestedSeed(k) ==
    /\ Abs(RowCount(k) - RowCount(k + 1)) <= 1
    /\ Abs(RowCount(k + 1) - RowCount(k + 2)) <= 1
    /\ RowCount(k) >= 2
    /\ \A c \in 1..SetMin({RowCount(a) : a \in k..(k + 2)}) :
          \A a, b \in k..(k + 2) :
              RowLefts(PageRowKeys[a])[c] - RowLefts(PageRowKeys[b])[c] <= 50

\* One table per seed that passes the test of the code, in the order of the
\* seeds, each holding the three rows of its seed.
C24_TestedSeedCondition ==
    pc = "tables" =>
        LET seeds == {k \in 1..(Len(PageRowKeys) - 2) : TestedSeed(k)}
        IN  /\ Len(tables) = Cardinality(seeds)
            /\ \A k \in seeds :
                  {PageRowKeys[k], PageRowKeys[k + 1], PageRowKeys[k + 2]}
                      \subseteq ParticipantKeys(
                          tables[Cardinality({j \in seeds : j <= k})])

\* The words of the page in the participant rows of a table.
ParticipantWords(table) ==
    {ocr_words[k] : k \in {j \in 1..Len(ocr_words) :
                              LineKey(ocr_words[j].bbox, 5) \in ParticipantKeys(table)}}

\* C25: for every emitted table, rows is the number of participant rows and
\* is >= 3, cols is the largest participant row length, cells holds exactly
\* one cell per word of the participant rows with distinct (row, col) pairs
\* where 0 <= row < rows and 0 <= col < cols, and the bbox of the table
\* covers the bbox of every cell.
C25_TableShape ==
    pc = "tables" =>
        \A t \in 1..Len(tables) :
            LET table == tables[t]
                cells == table.cells
            IN  /\ table.rows = Cardinality(ParticipantKeys(table))
                /\ table.rows >= 3
                /\ table.cols =
                       SetMax({Len(RowLefts(key)) : key \in ParticipantKeys(table)})
                /\ Len(cells) = Cardinality(ParticipantWords(table))
                /\ \A w \in ParticipantWords(table) :
                      Cardinality({c \in 1..Len(cells) :
                                      /\ cells[c].bbox = w.bbox
                                      /\ cells[c].text = w.word}) = 1
                /\ \A c, d \in 1..Len(cells) :
                      c # d => <<cells[c].row, cells[c].col>>
                                   # <<cells[d].row, cells[d].col>>
                /\ \A c \in 1..Len(cells) :
                      /\ 0 <= cells[c].row /\ cells[c].row < table.rows
                      /\ 0 <= cells[c].col /\ cells[c].col < table.cols
                      /\ table.bbox[1] <= cells[c].bbox[1]
                      /\ table.bbox[2] <= cells[c].bbox[2]
                      /\ cells[c].bbox[1] + cells[c].bbox[3]
                             <= table.bbox[1] + table.bbox[3]
                      /\ cells[c].bbox[2] + cells[c].bbox[4]
                             <= table.bbox[2] + table.bbox[4]

\* A table of four rows grown upwards from its seed: a first row of three
\* words above rows of four, fifteen cells in four columns.
C25_Witness ==
    /\ pc = "tables"
    /\ Len(tables) >= 1
    /\ tables[1].rows = 4
    /\ tables[1].cols = 4
    /\ Len(tables[1].cells) = 15
    /\ RowCount(1) = 3

(***************************************************************************)
(* analyze_layout and LayoutAnalysisService.process_document               *)
(***************************************************************************)
\* page_ocr.get('message', 'Unknown error') dropped from the entry.
UpstreamMessageDropped(page_ocr) == "Unknown error"

\* page_ocr.get('message', 'Unknown error')
UpstreamMessage(page_ocr) == Get(page_ocr, "message", "Unknown error")

\* A detector reads word['word'] of every boxed word: KeyError without it.
LayoutRaises(words) ==
    \E k \in 1..Len(words) :
        /\ "bbox" \in DOMAIN words[k]
        /\ Len(words[k].bbox) = 4
        /\ "word" \notin DOMAIN words[k]

\* The entry appended to layout_results for the page at index n (0-based).
LayoutPageResult(page_ocr, n) ==
    IF Get(page_ocr, "status", "") # "success"
    THEN [page_num |-> n + 1, status |-> "error",
          message |-> <<"OCR failed for this page", UpstreamMessage(page_ocr)>>]
    ELSE IF Get(page_ocr, "words", <<>>) = <<>>
    THEN [page_num |-> n + 1, status |-> "warning",
          message |-> "No words found in OCR results"]
    ELSE IF LayoutRaises(page_ocr.words)
    THEN \* caught by the page's except
         [page_num |-> n + 1, status |-> "error",
          message |-> <<"Layout analysis error", "'word'">>]
    ELSE [page_num |-> n + 1, status |-> "success",
          forms |-> detect_form_fields(page_ocr.words),
          tables |-> detect_tables(page_ocr.words),
          text_blocks |-> detect_text_blocks(page_ocr.words)]

\* The counts of the process_document defined first in the class (lines
\* 392-435); the definition at lines 502-525 replaces it.
LayoutSummary(results) ==
    LET success == SelectSeq(results, LAMBDA page : Get(page, "status", "") = "success")
    IN  [form_fields |-> SumOver(success, LAMBDA page : Len(Get(page, "forms", <<>>))),
         tables |-> SumOver(success, LAMBDA page : Len(Get(page, "tables", <<>>))),
         text_blocks |-> SumOver(success, LAMBDA page : Len(Get(page, "text_blocks", <<>>)))]

(***************************************************************************)
(* Inputs of layout analysis: the OCR results of a page.                   *)
(***************************************************************************)
AnalyzedPages ==
    {[status |-> "error", message |-> "OCR error"],
     [status |-> "error"],
     [status |-> "success", words |-> <<>>],
     [status |-> "success",
      words |-> <<Word(<<"I", "D", ":">>, <<0, 0, 6, 8>>), Word(<<"x">>, <<10, 0, 6, 8>>)>>],
     [status |-> "success",
      words |-> PageOfRows(<<<<0, 100, 200>>, <<10, 110, 200>>, <<100, 0, 200>>>>, 1)],
     [status |-> "success", words |-> <<[bbox |-> <<0, 0, 6, 8>>, conf |-> 90]>>]}

InitLayout ==
    /\ pc = "layout_process_document"
    /\ \/ \E n \in 0..MaxLayoutPages : \E pages \in [1..n -> AnalyzedPages] :
            ocr_results =
                [status |-> "success", pages |-> PyInt(n),
                 results |-> [i \in 1..n |-> [page_num |-> i] @@ pages[i]]]
       \/ ocr_results = [status |-> "error", message |-> "OCR processing error"]
    /\ IdleLayout
    /\ IdleRouter
    /\ IdlePii
    /\ pii_results = [status |-> "idle"]
    /\ page_num = 0
    /\ document_data = [status |-> "idle"]
    /\ redacted_pages = <<>>
    /\ total_redactions = 0
    /\ redacted_texts = <<>>
    /\ doc_result = [status |-> "idle"]
    /\ report_result = [status |-> "idle"]
    /\ files = NoFiles
    /\ IdleText
    /\ IdleImage
    /\ IdleMap

\* process_document refuses OCR results that are not a success.
LayoutRejectDocument ==
    /\ pc = "layout_process_document"
    /\ Get(ocr_results, "status", "") # "success"
    /\ layout_result' = [status |-> "error",
                         message |-> "Cannot process document due to OCR errors"]
    /\ pc' = "layout_rejected"
    /\ UNCHANGED <<routerVars, textVars, files, imageVars, docVars, mapVars, piiVars,
                   form_fields, tables, text_blocks, block, layout_results>>

\* analyze_layout without pages: an error dict, returned by process_document.
AnalyzeNoPages ==
    /\ pc = "layout_process_document"
    /\ Get(ocr_results, "status", "") = "success"
    /\ Get(ocr_results, "results", <<>>) = <<>>
    /\ layout_result' = [status |-> "error",
                         message |-> "No OCR results provided for layout analysis"]
    /\ pc' = "layout_returned"
    /\ UNCHANGED <<routerVars, textVars, files, imageVars, docVars, mapVars, piiVars,
                   form_fields, tables, text_blocks, block, layout_results>>

\* One iteration of the page loop of analyze_layout.
AnalyzePage ==
    /\ pc \in {"layout_process_document", "analyze_layout"}
    /\ Get(ocr_results, "status", "") = "success"
    /\ page_num < Len(Get(ocr_results, "results", <<>>))
    /\ layout_results' =
           Append(layout_results,
                  LayoutPageResult(ocr_results.results[page_num + 1], page_num))
    /\ page_num' = page_num + 1
    /\ pc' = "analyze_layout"
    /\ UNCHANGED <<routerVars, textVars, files, imageVars, mapVars, piiVars, document_data,
                   ocr_results, pii_results, redacted_pages, total_redactions,
                   redacted_texts, doc_result, report_result,
                   form_fields, tables, text_blocks, block, layout_result>>

\* analyze_layout returns, and process_document (the definition at lines
\* 502-525, the one the class keeps) returns its result as it is.
ReturnLayout ==
    /\ pc = "analyze_layout"
    /\ page_num >= Len(Get(ocr_results, "results", <<>>))
    /\ layout_result' = [status |-> "success",
                         pages |-> Len(layout_results),
                         results |-> layout_results]
    /\ pc' = "layout_returned"
    /\ UNCHANGED <<routerVars, textVars, files, imageVars, docVars, mapVars, piiVars,
                   form_fields, tables, text_blocks, block, layout_results>>

NextLayout == LayoutRejectDocument \/ AnalyzeNoPages \/ AnalyzePage \/ ReturnLayout

SpecLayout == InitLayout /\ [][NextLayout]_vars

(***************************************************************************)
(* Claim about the summary of the layout of a document.                    *)
(***************************************************************************)
\* C12: process_document, called on a successful OCR result, returns the
\* per-page results together with a document-level summary {form_fields,
\* tables, text_blocks} whose counts are the sums, over the success pages,
\* of the numbers of forms, tables and text blocks of each page.
C12_SummaryCounts ==
    pc = "layout_returned" /\ layout_results # <<>> =>
        /\ Get(layout_result, "results", <<>>) = layout_results
        /\ "summary" \in DOMAIN layout_result
        /\ layout_result.summary = LayoutSummary(layout_results)

(***************************************************************************)
(* The two page loops over the OCR results of a document, side by side.    *)
(***************************************************************************)
InitUpstream == InitPii \/ InitLayout

NextUpstream ==
    \/ PiiRejectDocument \/ DetectPiiNoPages \/ DetectPiiPage \/ ClassifySensitivity
    \/ LayoutRejectDocument \/ AnalyzeNoPages \/ AnalyzePage \/ ReturnLayout

SpecUpstream == InitUpstream /\ [][NextUpstream]_vars

\* The pages handed to the loop, and whether a loop has run to its end.
InputPages == Get(ocr_results, "results", <<>>)
LayoutAnalysed == pc = "layout_returned" /\ Get(layout_result, "status", "") = "success"
PiiDetected == pc = "pii_classified"

\* The entry of a page whose OCR failed: status error with the message of
\* the page, and none of the keys of an analysed page.
UpstreamFailure(page_ocr, entry) ==
    /\ entry.status = "error"
    /\ entry.message = <<"OCR failed for this page",
                         IF "message" \in DOMAIN page_ocr
                         THEN page_ocr.message ELSE "Unknown error">>
    /\ DOMAIN entry = {"page_num", "status", "message"}

\* One entry per input page in page order, failed pages reported with the
\* upstream message, and every entry what its page alone would have got.
EntryPerPage(entries, alone(_)) ==
    /\ Len(entries) = Len(InputPages)
    /\ \A k \in 1..Len(InputPages) :
          /\ k <= Len(entries)
          /\ entries[k].page_num = k
          /\ Get(InputPages[k], "status", "") # "success" =>
                 UpstreamFailure(InputPages[k], entries[k])
          /\ entries[k] = [alone(k) EXCEPT !.page_num = k]

\* C19 as stated: analyze_layout and detect_pii_in_doc each return exactly
\* one entry per input page in page order (page_num = index + 1); a page
\* whose OCR status is not success gets an error entry carrying the
\* upstream OCR message and is not analysed, and the entries of the other
\* pages are not changed by it.
C19_EntryPerInputPage ==
    /\ pc = "layout_returned" =>
          EntryPerPage(layout_results, LAMBDA k : LayoutPageResult(InputPages[k], 0))
    /\ PiiDetected =>
          EntryPerPage(pii_page_results,
                       LAMBDA k : PiiPageResult(InputPages[k], 0, detected[k]))

\* C19, for a document of at least one page.
C19_EntryPerPageOfNonEmpty ==
    /\ LayoutAnalysed =>
          EntryPerPage(layout_results, LAMBDA k : LayoutPageResult(InputPages[k], 0))
    /\ (PiiDetected /\ InputPages # <<>>) =>
          EntryPerPage(pii_page_results,
                       LAMBDA k : PiiPageResult(InputPages[k], 0, detected[k]))

\* Three pages analysed, the second one failed by OCR with a message, the
\* third one with its forms and blocks all the same.
C19_Witness ==
    /\ LayoutAnalysed
    /\ Len(InputPages) = 3
    /\ InputPages[1].status = "success"
    /\ InputPages[2].status = "error"
    /\ "message" \in DOMAIN InputPages[2]
    /\ layout_results[2].status = "error"
    /\ layout_results[3].status = "success"
    /\ layout_results[3].forms # <<>>

\* Two pages scanned for PII, the first one failed by OCR, entities found
\* on the second.
C19_PiiCase ==
    /\ PiiDetected
    /\ Len(InputPages) = 2
    /\ InputPages[1].status = "error"
    /\ pii_page_results[2].status = "success"
    /\ pii_page_results[2].entity_count > 0

(***************************************************************************)
(* ingest.py: the redact request and the document-info query               *)
(***************************************************************************)
\* d[key] = val on a dict
Put(d, key, val) == (key :> val) @@ d

\* create_redacted_pdf with the test of PDF_LIB_AVAILABLE left out.
create_redacted_pdf_unchecked(redacted_results, available, written) ==
    IF ~written
    THEN [status |-> "error", message |-> "Error creating redacted PDF"]
    ELSE [status |-> "success",
          total_pages |-> Len(Get(redacted_results, "redacted_pages", <<>>)),
          pages_with_redactions |->
              Len(SelectSeq(Get(redacted_results, "redacted_pages", <<>>),
                            LAMBDA page : Get(page, "redactions", 0) > 0)),
          total_redactions |-> Get(redacted_results, "total_redactions", 0)]

\* create_redacted_pdf: an error dict when fpdf is missing or when writing
\* the PDF raises (written = FALSE); it reads redacted_results only.
create_redacted_pdf(redacted_results, available, written) ==
    IF ~available
    THEN [status |-> "error", message |-> "PDF creation library is not available"]
    ELSE IF ~written
    THEN [status |-> "error", message |-> "Error creating redacted PDF"]
    ELSE [status |-> "success",
          total_pages |-> Len(Get(redacted_results, "redacted_pages", <<>>)),
          pages_with_redactions |->
              Len(SelectSeq(Get(redacted_results, "redacted_pages", <<>>),
                            LAMBDA page : Get(page, "redactions", 0) > 0)),
          total_redactions |-> Get(redacted_results, "total_redactions", 0)]

\* redaction_color: str = Form("black")
RequestedColor(req) == Get(req, "redaction_color", "black")

\* The response of get_document_info for a document of the cache.
DocumentInfo(cache, id) ==
    LET document_info == cache[id]
        stage(key, summary) ==
            IF key \in DOMAIN document_info THEN (key :> summary) ELSE <<>>
        preprocessing == Get(document_info, "preprocessing", <<>>)
        ocr == Get(document_info, "ocr", <<>>)
        pii == Get(document_info, "pii", <<>>)
        layout == Get(document_info, "layout", <<>>)
        redaction == Get(document_info, "redaction", <<>>)
        preview ==
            IF Get(ocr, "status", "") = "success" /\ Get(ocr, "results", <<>>) # <<>>
            THEN [text_preview |-> Get(ocr.results[1], "text", <<>>) \o <<"...">>]
            ELSE <<>>
    IN  [document_id |-> id, status |-> "processed"]
        @@ stage("preprocessing",
                 [status |-> Get(preprocessing, "status", None),
                  pages |-> Len(Get(preprocessing, "processed_pages", <<>>))])
        @@ stage("ocr",
                 [status |-> Get(ocr, "status", None),
                  pages |-> Get(ocr, "pages", PyInt(0))] @@ preview)
        @@ stage("pii",
                 [status |-> Get(pii, "status", None),
                  sensitivity |-> Get(pii, "sensitivity", "unknown"),
                  entity_count |-> Get(pii, "entity_count", 0),
                  entity_types |-> Get(pii, "entity_types", {})])
        @@ stage("layout",
                 [status |-> Get(layout, "status", None),
                  pages |-> Get(layout, "pages", 0),
                  summary |-> Get(layout, "summary", <<>>)])
        @@ stage("redaction",
                 [status |-> Get(redaction, "status", None),
                  pages |-> Get(redaction, "pages", 0),
                  total_redactions |-> Get(redaction, "total_redactions", 0)])

(***************************************************************************)
(* Inputs: the cache after an upload, and a redact request.  The OCR       *)
(* results of an entry have the page list process_document reads, or the   *)
(* page count and results of OCRService.process_document.                  *)
(***************************************************************************)
DocumentIds == {"20240101_000000", "20240101_000001"}

CachedPii ==
    {[status |-> "error", message |-> "OCR failed for this page"],
     [status |-> "success", entities |-> <<>>, entity_count |-> 0],
     [status |-> "success", entities |-> <<BoxedEntity>>, entity_count |-> 1]}

CachedOcr(n) ==
    {[status |-> "success",
      pages |-> PyList([i \in 1..n |-> [page_num |-> i, text |-> PageText]])],
     [status |-> "success", pages |-> PyInt(n),
      results |-> [i \in 1..n |-> [page_num |-> i, status |-> "success",
                                   text |-> PageText, words |-> <<>>]]]}

\* The entry of an uploaded document, by the stages that were run on it.
CachedEntry(src, ocr, pii, stages) ==
    [preprocessing |-> [status |-> "success", file_type |-> "pdf",
                        pages |-> Len(DocumentPages(src)),
                        processed_pages |-> DocumentPages(src)]]
    @@ (IF stages >= 1 THEN [ocr |-> ocr] ELSE <<>>)
    @@ (IF stages >= 2
        THEN [pii |-> [status |-> "success", pages |-> Len(src),
                       results |-> [i \in 1..Len(src) |-> [page_num |-> i] @@ pii[i]],
                       sensitivity |-> "medium", entity_count |-> 1,
                       entity_types |-> {SSN}]]
        ELSE <<>>)

Requests ==
    {[document_id |-> id] : id \in DocumentIds}
    \cup {[document_id |-> id, redaction_color |-> color] :
             id \in DocumentIds, color \in {"black", "white"}}

InitRedact ==
    /\ pc = "redact_document"
    /\ \E n \in 1..MaxCachedPages :
          \E src \in [1..n -> {"ok", "missing"}], pii \in [1..n -> CachedPii],
             ocr \in CachedOcr(n), stages \in 0..2 :
                /\ stages < 2 => /\ n = 1
                                 /\ src[1] = "ok"
                                 /\ pii[1].status = "error"
                                 /\ ocr.pages = PyInt(1)
                /\ files = DocumentFiles(src)
                /\ document_cache =
                       [id \in {"20240101_000000"} |-> CachedEntry(src, ocr, pii, stages)]
    /\ request \in Requests
    /\ PDF_LIB_AVAILABLE \in BOOLEAN
    /\ now = 0
    /\ uploads = <<>>
    /\ pdf_result = [status |-> "idle"]
    /\ response = [status |-> "idle"]
    /\ info_response = [status |-> "idle"]
    /\ IdleLayout
    /\ IdleDoc
    /\ IdleText
    /\ IdleImage
    /\ IdleMap
    /\ IdlePii

\* The request is refused: 404 for an unknown document, 400 for a document
\* without OCR or PII results.
RedactRefuse ==
    /\ pc = "redact_document"
    /\ \/ /\ request.document_id \notin DOMAIN document_cache
          /\ response' = [status_code |-> 404, detail |-> "Document not found"]
       \/ /\ request.document_id \in DOMAIN document_cache
          /\ "ocr" \notin DOMAIN document_cache[request.document_id]
          /\ response' = [status_code |-> 400, detail |-> "OCR results not available"]
       \/ /\ request.document_id \in DOMAIN document_cache
          /\ "ocr" \in DOMAIN document_cache[request.document_id]
          /\ "pii" \notin DOMAIN document_cache[request.document_id]
          /\ response' = [status_code |-> 400,
                          detail |-> "PII detection results not available"]
    /\ pc' = "responded"
    /\ UNCHANGED <<textVars, files, imageVars, docVars, mapVars, piiVars, layoutVars,
                   document_cache, request, pdf_result, info_response,
                   PDF_LIB_AVAILABLE, now, uploads>>

\* The results of the entry are handed to RedactionService.process_document;
\* redaction_color is passed on to nothing.
RedactStart ==
    /\ pc = "redact_document"
    /\ request.document_id \in DOMAIN document_cache
    /\ LET document_info == document_cache[request.document_id]
       IN  /\ "ocr" \in DOMAIN document_info
           /\ "pii" \in DOMAIN document_info
           /\ document_data' = document_info.preprocessing
           /\ ocr_results' = document_info.ocr
           /\ pii_results' = document_info.pii
    /\ pc' = "process_document"
    /\ UNCHANGED <<textVars, files, imageVars, mapVars, piiVars, layoutVars,
                   routerVars, page_num, redacted_pages, total_redactions,
                   redacted_texts, doc_result, report_result>>

\* After process_document: the results are stored in the cache, then the
\* PDF is assembled and the report written, and the response is returned.
RedactRespond ==
    /\ pc \in {"redacted", "rejected"}
    /\ request.document_id \in DOMAIN document_cache
    /\ document_cache' =
           [document_cache EXCEPT
               ![request.document_id] = Put(@, "redaction", doc_result)]
    /\ \E written \in BOOLEAN, reported \in BOOLEAN :
          LET assembled == create_redacted_pdf(doc_result, PDF_LIB_AVAILABLE, written)
          IN  IF Get(doc_result, "status", "") # "success"
              THEN /\ response' = [status |-> "error",
                                   message |-> Get(doc_result, "message",
                                                   "Unknown redaction error")]
                   /\ UNCHANGED <<pdf_result, report_result>>
              ELSE IF assembled.status # "success"
              THEN /\ pdf_result' = assembled
                   /\ response' = [status |-> "partial_success",
                                   message |-> "Redaction completed but PDF creation failed",
                                   redaction |-> doc_result,
                                   pdf_error |-> assembled.message]
                   /\ UNCHANGED report_result
              ELSE /\ pdf_result' = assembled
                   /\ report_result' =
                          IF reported
                          THEN [status |-> "success",
                                report |-> RedactionReport(doc_result, pii_results)]
                          ELSE [status |-> "error",
                                message |-> "Error creating redaction report"]
                   /\ response' =
                          [status |-> "success",
                           redaction |->
                               [pages |-> Get(doc_result, "pages", 0),
                                total_redactions |->
                                    Get(doc_result, "total_redactions", 0)],
                           pdf |-> [filename |-> <<request.document_id, "_redacted.pdf">>],
                           report |-> [filename |-> <<request.document_id,
                                                      "_redaction_report.json">>]]
    /\ pc' = "responded"
    /\ UNCHANGED <<textVars, files, imageVars, mapVars, piiVars, layoutVars,
                   document_data, ocr_results, pii_results, page_num,
                   redacted_pages, total_redactions, redacted_texts, doc_result,
                   request, info_response, PDF_LIB_AVAILABLE, now, uploads>>

\* get_document_info, some time after the redact request.
GetDocumentInfo ==
    /\ pc = "responded"
    /\ \E id \in DocumentIds :
          info_response' =
              IF id \notin DOMAIN document_cache
              THEN [document_id |-> id, status_code |-> 404,
                    detail |-> "Document not found"]
              ELSE DocumentInfo(document_cache, id)
    /\ pc' = "queried"
    /\ UNCHANGED <<textVars, files, imageVars, docVars, mapVars, piiVars, layoutVars,
                   document_cache, request, pdf_result, response, PDF_LIB_AVAILABLE,
                   now, uploads>>

NextRedact ==
    \/ RedactRefuse \/ RedactStart
    \/ ValidateInputs \/ RedactPage \/ ReturnRedacted
    \/ RedactRespond \/ GetDocumentInfo

SpecRedact == InitRedact /\ [][NextRedact]_vars

(***************************************************************************)
(* Claims about the redact request.                                        *)
(***************************************************************************)
\* The rectangles on the image files, whichever page they are on.
FillsDrawn ==
    UNION {{files[q].rects[k].fill : k \in 1..Len(files[q].rects)} : q \in DOMAIN files}

AssemblyFailure ==
    /\ pc \in {"responded", "queried"}
    /\ ~PDF_LIB_AVAILABLE
    /\ Get(doc_result, "status", "") = "success"

\* What the request leaves behind on an assembly failure: the error dict of
\* create_redacted_pdf, the failure in the response, and the per-page
\* results, as process_document returned them, in the cache entry.
FailureReportedResultsKept ==
    /\ pdf_result = [status |-> "error",
                     message |-> "PDF creation library is not available"]
    /\ response.status = "partial_success"
    /\ response.pdf_error = "PDF creation library is not available"
    /\ doc_result.redacted_pages = redacted_pages
    /\ "redaction" \in DOMAIN document_cache[request.document_id]
    /\ document_cache[request.document_id].redaction = doc_result

QueriedAgain ==
    /\ pc = "queried"
    /\ info_response.document_id = request.document_id

\* C18 as stated: with no PDF backend create_redacted_pdf returns an error
\* result without raising and without touching the per-page results; the
\* redact request reports the failure at document level, the per-page
\* results stay in the document's cache entry and are returned by a later
\* document-info query.
C18_PerPageResultsReturned ==
    AssemblyFailure =>
        /\ FailureReportedResultsKept
        /\ QueriedAgain =>
              /\ "redaction" \in DOMAIN info_response
              /\ "redacted_pages" \in DOMAIN info_response.redaction
              /\ info_response.redaction.redacted_pages = redacted_pages

\* C18, the later document-info query returning the status, the number of
\* pages and the total of redactions of the stored results.
C18_ResultsKeptAndSummarised ==
    AssemblyFailure =>
        /\ FailureReportedResultsKept
        /\ QueriedAgain =>
              /\ "redaction" \in DOMAIN info_response
              /\ info_response.redaction =
                     [status |-> "success", pages |-> Len(redacted_pages),
                      total_redactions |-> total_redactions]

\* Two pages redacted, one rectangle drawn, no PDF backend, and the
\* document queried afterwards.
C18_Witness ==
    /\ AssemblyFailure
    /\ QueriedAgain
    /\ Len(redacted_pages) = 2
    /\ total_redactions = 1
    /\ response.status = "partial_success"

(***************************************************************************)
(* Claim about overlapping spans in redact_text_entities.                  *)
(***************************************************************************)
\* The characters of the text that lie inside the span of some entity, and
\* the characters of the value returned.  The characters of a text of the
\* model are pairwise distinct and none of them occurs in a marker.
CoveredChars ==
    {text[k] : k \in {j \in 1..Len(text) :
                        \E i \in 1..Len(entities) :
                            entities[i].start.int < j /\ j <= entities[i].end.int}}
ReturnedChars == {returned[k] : k \in 1..Len(returned)}

\* C20: for any entity list passed to redact_text_entities, overlapping or
\* nested spans included, no character of the original text that lies
\* inside the span [start, end) of some entity is in the output.
C20_NoLeakUnderOverlap ==
    (pc = "returned" /\ SpansInRange(text, entities))
        => CoveredChars \cap ReturnedChars = {}

(***************************************************************************)
(* Claims about the text and the partition of the text blocks.             *)
(***************************************************************************)
\* C21: for every block returned (first or later, of one line or more),
\* text is the concatenation of its lines from top to bottom, each line its
\* words from left to right joined by single spaces, so that each word of
\* the block occurs in text exactly once.
C21_BlockText ==
    pc = "text_blocks" =>
        \A k \in 1..Len(text_blocks) :
            text_blocks[k].text = JoinWords(TextClusters(ocr_words)[k].words)

\* The number of elements of seq equal to w.
Occurs(seq, w) == Len(SelectSeq(seq, LAMBDA v : v = w))

WordCount(b) == b.word_count
LineCount(b) == b.line_count

\* The line keys of the words of the page that lie in the k-th block.
KeysOfBlock(k) ==
    LET members == TextClusters(ocr_words)[k].words
    IN  {LineKey(members[a].bbox, 5) : a \in 1..Len(members)}

\* The blocks returned partition the words of the page that have a box.
BlocksPartition ==
    /\ \A k \in 1..Len(text_blocks) :
          text_blocks[k].word_count = Len(TextClusters(ocr_words)[k].words)
    /\ \A a \in 1..Len(Boxed(ocr_words)) :
          LET w == Boxed(ocr_words)[a]
          IN  Occurs(Boxed(ocr_words), w)
                  = SumOver(TextClusters(ocr_words), LAMBDA c : Occurs(c.words, w))
    /\ SumOver(text_blocks, WordCount) = Len(Boxed(ocr_words))
    /\ SumOver(text_blocks, LineCount) = Len(SortedKeys(Boxed(ocr_words), 5))
    /\ \A k \in 1..Len(text_blocks) - 1 :
          \A above \in KeysOfBlock(k), below \in KeysOfBlock(k + 1) : above < below
    /\ ocr_words = <<>> => text_blocks = <<>>

\* C30: the blocks returned partition the words of the page that have a
\* 4-element bbox: every such word belongs to exactly one block, the
\* word_count of the blocks sum to their number, the line_count to the number
\* of distinct line keys, the blocks are in ascending vertical order, and
\* no words give no blocks without error.
C30_BlockPartition ==
    /\ pc # "text_blocks_raised"
    /\ pc = "text_blocks" => BlocksPartition

\* Whenever the call returns, its blocks partition the boxed words.
C30_PartitionWhenReturned ==
    pc = "text_blocks" => BlocksPartition

(***************************************************************************)
(* Claim about the composition of the stages.                              *)
(***************************************************************************)
\* The OCR results as OCRService.process_document returns them: the number
\* of pages under "pages", the pages themselves under "results".
ProducedByOcrService(ocr) ==
    /\ "pages" \in DOMAIN ocr /\ "int" \in DOMAIN ocr.pages
    /\ "results" \in DOMAIN ocr

\* Every page whose PII status is success and whose document page exists
\* has a success entry, with redacted_text whenever it has entities.
PagesRedacted ==
    \A k \in 1..Len(pii_results.results) :
        LET pii_page == pii_results.results[k]
        IN  /\ pii_page.status = "success"
            /\ PagesNumbered(document_data.processed_pages, k) # <<>>
            => /\ k <= Len(doc_result.redacted_pages)
               /\ doc_result.redacted_pages[k].status = "success"
               /\ pii_page.entities # <<>> =>
                      "redacted_text" \in DOMAIN doc_result.redacted_pages[k]

\* C27: given the results exactly as produced by prepare_document,
\* OCRService.process_document and PIIDetectionService.process_document, as
\* the redact request hands them over, process_document finds the OCR text
\* of each page, and every page whose PII status is success and whose
\* document page exists gets a success entry, with redacted_text present
\* whenever the page has entities.
C27_StagesCompose ==
    pc = "redacted" /\ ProducedByOcrService(ocr_results) => PagesRedacted

\* The same pages are redacted as claimed when the OCR results carry the
\* list of pages under "pages".
C27_ComposesOverPageList ==
    pc = "redacted" /\ "list" \in DOMAIN ocr_results.pages => PagesRedacted

(***************************************************************************)
(* ingest.py: upload_document, upload_multiple_documents and the document  *)
(* cache over a sequence of requests.  No handler awaits anything, so each *)
(* request runs from its first statement to its response before the next   *)
(* one starts; the clock advances between requests and between the files   *)
(* of a batch.                                                             *)
(***************************************************************************)
\* datetime.now().strftime("%Y%m%d_%H%M%S") at second s of the clock
Timestamps ==
    <<"20240101_000000", "20240101_000001", "20240101_000002", "20240101_000003">>
Timestamp(s) == Timestamps[s + 1]

\* allowed_types
AllowedTypes == {"application/pdf", "image/jpeg", "image/png", "image/tiff"}

\* PreprocessingService.prepare_document on an uploaded image: the page is
\* normalized into a folder named by a fresh uuid, or Image.open fails.
prepare_document(file_path, image, doc_id) ==
    IF image # "ok"
    THEN [status |-> "error", message |-> "Error processing image"]
    ELSE [status |-> "success", file_type |-> "image", pages |-> 1,
          doc_id |-> doc_id,
          processed_pages |-> <<[page_num |-> 1,
                                 temp_path |-> [doc |-> doc_id, page |-> 1],
                                 original_path |-> file_path]>>]

\* OCRService.process_document: scanned[i] is what process_image returns
\* for the i-th page.
ocr_process_document(doc, scanned) ==
    IF doc.status # "success"
    THEN [status |-> "error",
          message |-> "Cannot process document due to preprocessing errors"]
    ELSE LET pages == Get(doc, "processed_pages", <<>>)
         IN  [status |-> "success",
              pages |-> PyInt(Len(pages)),
              results |-> [i \in 1..Len(pages) |->
                              Put(scanned[i], "page_num", pages[i].page_num)]]

\* PIIDetectionService.process_document: found[i] is what detect_pii finds
\* in the text of the i-th page.
pii_process_document(ocr, found) ==
    IF Get(ocr, "status", "") # "success"
    THEN [status |-> "error", message |-> "Cannot process document due to OCR errors"]
    ELSE LET pages == Get(ocr, "results", <<>>)
             entries == IF pages = <<>>
                        THEN <<[page_num |-> 0, status |-> "error",
                                message |-> "No OCR results provided"]>>
                        ELSE [i \in 1..Len(pages) |->
                                 PiiPageResult(pages[i], i - 1, found[i])]
         IN  [status |-> "success",
              pages |-> Len(entries),
              results |-> entries,
              sensitivity |-> Sensitivity(TotalEntities(entries)),
              entity_count |-> TotalEntities(entries),
              entity_types |-> EntityTypes(entries)]

\* LayoutAnalysisService.process_document
layout_process_document(ocr) ==
    IF Get(ocr, "status", "") # "success"
    THEN [status |-> "error", message |-> "Cannot process document due to OCR errors"]
    ELSE LET pages == Get(ocr, "results", <<>>)
             entries == [i \in 1..Len(pages) |-> LayoutPageResult(pages[i], i - 1)]
         IN  IF pages = <<>>
             THEN [status |-> "error",
                   message |-> "No OCR results provided for layout analysis"]
             ELSE [status |-> "success", pages |-> Len(entries), results |-> entries]

\* PII detection run and stored whether or not OCR was.
UploadedEntryPiiWithoutOcr(preprocessing_result, ocr, detect_pii, analyze_layout, scanned, found) ==
    LET ocr_out == ocr_process_document(preprocessing_result, scanned)
    IN  [preprocessing |-> preprocessing_result]
        @@ (IF preprocessing_result.status = "success" /\ ocr
            THEN [ocr |-> ocr_out] ELSE <<>>)
        @@ (IF preprocessing_result.status = "success" /\ detect_pii
            THEN [pii |-> pii_process_document(ocr_out, found)] ELSE <<>>)

\* document_cache[timestamp] when the handler is through with a file: the
\* entry is created with the preprocessing result alone, and the later
\* stages are stored under their keys as they are run.
UploadedEntry(preprocessing_result, ocr, detect_pii, analyze_layout, scanned, found) ==
    LET ocr_out == ocr_process_document(preprocessing_result, scanned)
        analysed == ocr_out.status = "success"
    IN  [preprocessing |-> preprocessing_result]
        @@ (IF preprocessing_result.status = "success" /\ ocr
            THEN [ocr |-> ocr_out]
                 @@ (IF analysed /\ detect_pii
                     THEN [pii |-> pii_process_document(ocr_out, found)] ELSE <<>>)
                 @@ (IF analysed /\ analyze_layout
                     THEN [layout |-> layout_process_document(ocr_out)] ELSE <<>>)
            ELSE <<>>)

\* The cache, the files and the responses after one file of an upload
\* request was handled at second s; a file of another content type is
\* turned away and changes nothing.
AfterUpload(st, file, s, ocr, detect_pii, analyze_layout, scanned, found) ==
    IF file.content_type \notin AllowedTypes
    THEN st
    ELSE LET timestamp == Timestamp(s)
             file_path == <<timestamp, file.filename>>
             doc_id == Len(st.uploads) + 1
             preprocessing_result == prepare_document(file_path, file.image, doc_id)
         IN  [cache |-> Put(st.cache, timestamp,
                            UploadedEntry(preprocessing_result, ocr, detect_pii,
                                          analyze_layout, scanned, found)),
              files |-> IF preprocessing_result.status = "success"
                        THEN WithFile(st.files, [doc |-> doc_id, page |-> 1],
                                      PageImage("ok"))
                        ELSE st.files,
              uploads |-> Append(st.uploads,
                                 [status |-> "uploaded",
                                  filename |-> file_path,
                                  content_type |-> file.content_type,
                                  document_id |-> timestamp])]

(***************************************************************************)
(* Inputs of the upload requests.                                          *)
(***************************************************************************)
UploadFiles ==
    {[filename |-> "a.png", content_type |-> "image/png", image |-> "ok"],
     [filename |-> "b.png", content_type |-> "image/png", image |-> "unreadable"],
     [filename |-> "c.txt", content_type |-> "text/plain", image |-> "unreadable"]}

\* The query parameters ocr, detect_pii and analyze_layout of a request.
UploadFlags ==
    {<<FALSE, FALSE, FALSE>>, <<FALSE, TRUE, TRUE>>, <<TRUE, FALSE, FALSE>>,
     <<TRUE, TRUE, FALSE>>, <<TRUE, FALSE, TRUE>>, <<TRUE, TRUE, TRUE>>}

\* What process_image returns for the page, with what detect_pii finds.
PageScans ==
    {[scanned |-> <<[status |-> "error", message |-> "OCR error"]>>, found |-> <<<<>>>>],
     [scanned |-> <<[status |-> "success", text |-> PyText(ScannedText),
                     words |-> ScannedWords]>>,
      found |-> <<<<Detected(1)>>>>]}

\* The locals of a handler that starts.
FreshCall ==
    /\ document_data' = [status |-> "idle"]
    /\ ocr_results' = [status |-> "idle"]
    /\ pii_results' = [status |-> "idle"]
    /\ page_num' = 0
    /\ redacted_pages' = <<>>
    /\ total_redactions' = 0
    /\ redacted_texts' = <<>>
    /\ doc_result' = [status |-> "idle"]
    /\ report_result' = [status |-> "idle"]
    /\ pdf_result' = [status |-> "idle"]

BetweenRequests == pc \in {"idle", "responded"}

InitPipeline ==
    /\ pc = "idle"
    /\ files = NoFiles
    /\ IdleRouter
    /\ IdleLayout
    /\ IdleDoc
    /\ IdleText
    /\ IdleImage
    /\ IdleMap
    /\ IdlePii

\* A second passes.
Tick ==
    /\ BetweenRequests
    /\ now < MaxSeconds
    /\ now' = now + 1
    /\ UNCHANGED <<pc, textVars, files, imageVars, docVars, mapVars, piiVars,
                   layoutVars, document_cache, request, pdf_result, response,
                   info_response, PDF_LIB_AVAILABLE, uploads>>

\* POST /upload
UploadDocument ==
    /\ BetweenRequests
    /\ Len(uploads) < MaxUploads
    /\ \E file \in UploadFiles, flags \in UploadFlags, page \in PageScans :
          LET before == [cache |-> document_cache, files |-> files, uploads |-> uploads]
              after == AfterUpload(before, file, now, flags[1], flags[2],
                                   flags[3], page.scanned, page.found)
          IN  /\ document_cache' = after.cache
              /\ files' = after.files
              /\ uploads' = after.uploads
              /\ response' = IF file.content_type \in AllowedTypes
                             THEN after.uploads[Len(after.uploads)]
                             ELSE [status_code |-> 400, detail |-> "Invalid file type"]
    /\ FreshCall
    /\ pc' = "idle"
    /\ UNCHANGED <<textVars, imageVars, mapVars, piiVars, layoutVars, request,
                   info_response, PDF_LIB_AVAILABLE, now>>

\* POST /upload-batch with two files: the clock is read once per file.
UploadBatch ==
    /\ BetweenRequests
    /\ Len(uploads) + 2 <= MaxUploads
    /\ \E first, second \in UploadFiles, flags \in UploadFlags,
          page \in PageScans, later \in now..Min(now + 1, MaxSeconds) :
          LET before == [cache |-> document_cache, files |-> files, uploads |-> uploads]
              between == AfterUpload(before, first, now, flags[1], flags[2],
                                     flags[3], page.scanned, page.found)
              after == AfterUpload(between, second, later, flags[1], flags[2],
                                   flags[3], page.scanned, page.found)
          IN  /\ document_cache' = after.cache
              /\ files' = after.files
              /\ uploads' = after.uploads
              /\ now' = later
              /\ response' =
                     [results |-> SubSeq(after.uploads, Len(uploads) + 1,
                                         Len(after.uploads))]
    /\ FreshCall
    /\ pc' = "idle"
    /\ UNCHANGED <<textVars, imageVars, mapVars, piiVars, layoutVars, request,
                   info_response, PDF_LIB_AVAILABLE>>

\* POST /redact/{document_id} arrives.
RequestRedact ==
    /\ BetweenRequests
    /\ \E s \in 0..MaxSeconds : request' = [document_id |-> Timestamp(s)]
    /\ FreshCall
    /\ response' = [status |-> "idle"]
    /\ pc' = "redact_document"
    /\ UNCHANGED <<textVars, files, imageVars, mapVars, piiVars, layoutVars,
                   document_cache, info_response, PDF_LIB_AVAILABLE, now, uploads>>

NextPipeline ==
    \/ Tick \/ UploadDocument \/ UploadBatch \/ RequestRedact
    \/ RedactRefuse \/ RedactStart
    \/ ValidateInputs \/ RedactPage \/ ReturnRedacted
    \/ RedactRespond

SpecPipeline == InitPipeline /\ [][NextPipeline]_vars

(***************************************************************************)
(* Claims about the document cache.                                        *)
(***************************************************************************)
\* The stages an entry of the cache holds results of.
Holds(entry, stage) == stage \in DOMAIN entry

\* An entry holds pii or layout results only if it holds OCR results with
\* status success, and redaction results only if it holds both OCR and PII
\* results.
StagesInOrder ==
    \A id \in DOMAIN document_cache :
        LET entry == document_cache[id]
        IN  /\ Holds(entry, "pii") \/ Holds(entry, "layout") =>
                  /\ Holds(entry, "ocr")
                  /\ Get(entry.ocr, "status", "") = "success"
            /\ Holds(entry, "redaction") =>
                  Holds(entry, "ocr") /\ Holds(entry, "pii")

\* The request at hand names an unknown document or one lacking OCR or PII
\* results.
Refusable ==
    \/ request.document_id \notin DOMAIN document_cache
    \/ ~Holds(document_cache[request.document_id], "ocr")
    \/ ~Holds(document_cache[request.document_id], "pii")

\* Such a request is answered 404 (unknown) or 400 (lacking results), runs
\* no redaction and leaves the cache as it is.
RefusedLeavesCache ==
    pc = "redact_document" /\ Refusable =>
        /\ pc' = "responded"
        /\ "status_code" \in DOMAIN response'
        /\ response'.status_code =
               IF request.document_id \notin DOMAIN document_cache THEN 404 ELSE 400
        /\ document_cache' = document_cache
        /\ files' = files
        /\ doc_result' = [status |-> "idle"]

\* C28: after any sequence of upload and redact requests, an entry of the
\* cache holds pii or layout results only if it holds OCR results with
\* status success, and holds redaction results only if it holds both OCR
\* and PII results; a redact request for an unknown id (404) or for a
\* document lacking OCR or PII results (400) performs no redaction and
\* leaves the cache unchanged.
C28_PipelineOrdering == []StagesInOrder /\ [][RefusedLeavesCache]_vars

\* A document uploaded with OCR, PII detection and layout analysis was
\* redacted: its entry holds the results of all five stages.
C28_Witness ==
    /\ pc = "responded"
    /\ \E id \in DOMAIN document_cache :
          /\ DOMAIN document_cache[id]
                 = {"preprocessing", "ocr", "pii", "layout", "redaction"}
          /\ document_cache[id].redaction.status = "success"

\* A request for a document with OCR results and without PII results was
\* refused.
C28_RefusedWitness ==
    /\ pc = "responded"
    /\ "status_code" \in DOMAIN response
    /\ response.status_code = 400
    /\ request.document_id \in DOMAIN document_cache
    /\ Holds(document_cache[request.document_id], "ocr")

\* C29: every accepted upload (single, batch, or concurrent requests) gets
\* a document_id distinct from those of all other uploads, so that storing
\* the results of one document never overwrites the cache entry of another.
C29_DistinctDocumentIds ==
    /\ \A i, j \in 1..Len(uploads) :
          i # j => uploads[i].document_id # uploads[j].document_id
    /\ \A i \in 1..Len(uploads) :
          /\ uploads[i].document_id \in DOMAIN document_cache
          /\ LET stored == document_cache[uploads[i].document_id].preprocessing
             IN  stored.status = "success" =>
                     stored.processed_pages[1].original_path = uploads[i].filename

\* Uploads accepted in different seconds keep their entries apart.
C29_DistinctAcrossSeconds ==
    \A i \in 1..Len(uploads) :
        (\A j \in 1..Len(uploads) :
            i # j => uploads[i].document_id # uploads[j].document_id)
        => /\ uploads[i].document_id \in DOMAIN document_cache
           /\ LET stored == document_cache[uploads[i].document_id].preprocessing
              IN  stored.status = "success" =>
                      stored.processed_pages[1].original_path = uploads[i].filename

====
